---- MODULE Spec2Model ----
(***************************************************************************)
(* Model of the retrieval pipeline orchestrator of coreason_search:        *)
(* SearchEngineAsync.execute (bounded pipeline: retrieval, fusion,         *)
(* re-ranking, distillation, response) and                                 *)
(* SearchEngineAsync.execute_systematic (streamed mode bracketed by audit  *)
(* events), with the pure stages FusionEngine.fuse, MockReranker.rerank    *)
(* and MockScout.distill computed as the code computes them.               *)
(*                                                                         *)
(* Representation.                                                         *)
(*   - A Python str is a tuple of one-character strings.                   *)
(*   - An Optional[str] is a tuple of length 0 (None) or 1 (the string).   *)
(*   - A float score is an integer number of 1/ScoreUnit units.            *)
(*   - Retrievers, the content fetcher and the audit sink are external     *)
(*     collaborators: what they return (or raise) is chosen by the         *)
(*     environment from small sets.                                        *)
(***************************************************************************)
EXTENDS Integers, Sequences, FiniteSets, TLC

\* ------------------------------------------------------------------ bounds
MaxStrategies == 2
MaxHits == 1
MaxTopK == 2
\* The longest candidate list (and the largest top_k) of the wide runs: one
\* more than the re-rank window.
MaxWide == 51
\* The most rows the backend table holds.
MaxRows == 2
\* The most engines constructed in one process.
MaxEngines == 2
\* The most hits in a list handed to FusionEngine.fuse on its own.
MaxFuseLen == 3
\* The longest raw query drawn letter by letter.
MaxQueryLen == 4
\* The most sub-predicates in the list of an $or or an $and.
MaxConditions == 2
\* The longest text of a hit, and the longest query, the Scout is called with
\* on its own.
MaxTextLen == 4
MaxTermsLen == 2

\* ------------------------------------------------------- program constants
RrfK == 60
RerankWindow == 50
ThresholdTenths == 4
\* The page size of the systematic stream.
BatchSize == 1000
SystematicLimit == 1000000
OversampleFactor == 10
OversampleMin == 100

\* One unit of score is 1/ScoreUnit; divisible by 61..64 (RRF ranks 0..3 with
\* k = 60) and by 100 (the mock re-ranker's 0.01 per character).
ScoreUnit == 61 * 31 * 63 * 64 * 25

\* ------------------------------------------------------------ data model
None == <<>>
Some(s) == <<s>>

RetrieverType == {"lance_dense", "lance_fts", "graph_neighbor"}

UserContexts == {"None", "valid"}

\* No fetcher, one that serves the authorised context only, one that serves
\* everyone, and one that raises.
Fetchers == {"none", "secure", "open", "exploding"}

Queries == {<<"a", "B">>}

TextShort == <<"A", "b", ".", " ", "c">>
TextFetched == <<"x", " ", "a", "b", ".">>

\* A stored document hit (text present) and a pointer hit (text deferred).
HitText ==
    [doc_id |-> "d1", content |-> Some(TextShort), original_text |-> Some(TextShort),
     distilled_text |-> <<>>, score |-> (ScoreUnit \div 10) * 9,
     source_pointer |-> "None"]

HitPointer ==
    [doc_id |-> "d2", content |-> None, original_text |-> None,
     distilled_text |-> <<>>, score |-> (ScoreUnit \div 10) * 9,
     source_pointer |-> "secret"]

HitPool == {HitText, HitPointer}

RECURSIVE SeqsUpTo(_, _)
SeqsUpTo(S, n) ==
    IF n = 0 THEN {<<>>}
    ELSE LET shorter == SeqsUpTo(S, n - 1)
         IN shorter \cup {Append(s, x) : s \in {t \in shorter : Len(t) = n - 1}, x \in S}

SearchRequest ==
    [query : Queries,
     strategies : SeqsUpTo(RetrieverType, MaxStrategies) \ {<<>>},
     fusion_enabled : BOOLEAN,
     rerank_enabled : BOOLEAN,
     distill_enabled : BOOLEAN,
     top_k : 1..MaxTopK,
     user_context : UserContexts]

HitLists == SeqsUpTo(HitPool, MaxHits)

\* ------------------------------------------------------- sequence helpers
Min(a, b) == IF a < b THEN a ELSE b

Take(s, n) == SubSeq(s, 1, Min(n, Len(s)))

RECURSIVE Flatten(_)
Flatten(lists) ==
    IF lists = <<>> THEN <<>> ELSE Head(lists) \o Flatten(Tail(lists))

DocIds(hits) == [i \in 1..Len(hits) |-> hits[i].doc_id]

\* list.sort(key=score, reverse=True): stable, equal scores keep their order.
RECURSIVE SortByScoreDesc(_)
SortByScoreDesc(hits) ==
    IF Len(hits) <= 1 THEN hits
    ELSE LET n == Len(hits)
             last == hits[n]
             front == SortByScoreDesc(SubSeq(hits, 1, n - 1))
             keep == {i \in 1..(n - 1) : front[i].score >= last.score}
             p == Cardinality(keep)
         IN SubSeq(front, 1, p) \o <<last>> \o SubSeq(front, p + 1, n - 1)

\* The first occurrence of every doc_id, in order of first appearance.
KeepFirst(hits) ==
    LET first == {i \in 1..Len(hits) :
                     \A j \in 1..(i - 1) : hits[j].doc_id # hits[i].doc_id}
        F[i \in 0..Len(hits)] ==
            IF i = 0 THEN <<>>
            ELSE IF i \in first THEN Append(F[i - 1], hits[i]) ELSE F[i - 1]
    IN F[Len(hits)]

\* ----------------------------------------------------------- FusionEngine
\* A bug in which the rank is taken 1-based.
RrfScoreOneBased(k, rank) == ScoreUnit \div (k + rank + 2)

\* 1.0 / (k + rank + 1) for the 0-based rank.
RrfScore(k, rank) == ScoreUnit \div (k + rank + 1)

\* doc_scores[doc_id]: the sum over every list and every rank the id occurs at.
DocScore(k, results, id) ==
    LET L[i \in 0..Len(results)] ==
            IF i = 0 THEN 0
            ELSE LET lst == results[i]
                     R[r \in 0..Len(lst)] ==
                         IF r = 0 THEN 0
                         ELSE R[r - 1] +
                              (IF lst[r].doc_id = id THEN RrfScore(k, r - 1) ELSE 0)
                 IN L[i - 1] + R[Len(lst)]
    IN L[Len(results)]

\* A bug in which documents are collected from the last list backwards, so
\* that equal scores come out in the order of last appearance.
FuseKBackwards(k, results) ==
    IF results = <<>> THEN <<>>
    ELSE LET flat == Flatten(results)
             doc_map == KeepFirst([i \in 1..Len(flat) |-> flat[Len(flat) + 1 - i]])
             new_hits == [i \in 1..Len(doc_map) |->
                            [doc_map[i] EXCEPT !.score =
                                DocScore(k, results, doc_map[i].doc_id)]]
         IN SortByScoreDesc(new_hits)

FuseK(k, results) ==
    IF results = <<>> THEN <<>>
    ELSE LET doc_map == KeepFirst(Flatten(results))
             new_hits == [i \in 1..Len(doc_map) |->
                            [doc_map[i] EXCEPT !.score =
                                DocScore(k, results, doc_map[i].doc_id)]]
         IN SortByScoreDesc(new_hits)

Fuse(results) == FuseK(RrfK, results)

\* ----------------------------------------------------------- MockReranker
\* len(hit.content) raises TypeError when content is None.
RerankRaises(hits) == \E i \in 1..Len(hits) : hits[i].content = None

Rerank(query, hits, top_k) ==
    IF hits = <<>> THEN <<>>
    ELSE LET scored_hits == [i \in 1..Len(hits) |->
                               [hits[i] EXCEPT !.score =
                                   Len(hits[i].content[1]) * (ScoreUnit \div 100)]]
         IN Take(SortByScoreDesc(scored_hits), top_k)

\* -------------------------------------------------------------- MockScout
IsTerminator(c) == c \in {".", "!", "?"}
IsSpace(c) == c = " "

Lower(c) == CASE c = "A" -> "a" [] c = "B" -> "b" [] OTHER -> c
LowerStr(s) == [i \in 1..Len(s) |-> Lower(s[i])]

RECURSIVE Strip(_)
Strip(s) ==
    IF s = <<>> THEN s
    ELSE IF IsSpace(s[1]) THEN Strip(Tail(s))
    ELSE IF IsSpace(s[Len(s)]) THEN Strip(SubSeq(s, 1, Len(s) - 1))
    ELSE s

\* re.split(r"(?<=[.!?])\s+", text): cut out every maximal whitespace run that
\* directly follows a terminator.
RECURSIVE RegexSplit(_, _, _)
RegexSplit(text, i, piece) ==
    IF i > Len(text) THEN <<piece>>
    ELSE IF IsSpace(text[i]) /\ i > 1 /\ IsTerminator(text[i - 1])
    THEN LET run == {j \in i..Len(text) : \A m \in i..j : IsSpace(text[m])}
             e == i + Cardinality(run)
         IN <<piece>> \o RegexSplit(text, e, <<>>)
    ELSE RegexSplit(text, i + 1, Append(piece, text[i]))

SelectNonEmpty(pieces) == SelectSeq(pieces, LAMBDA p : p # <<>>)

\* _segment: [s.strip() for s in split if s.strip()]
Segment(text) ==
    LET parts == RegexSplit(text, 1, <<>>)
    IN SelectNonEmpty([i \in 1..Len(parts) |-> Strip(parts[i])])

\* str.split(): the maximal runs of non-whitespace characters.
RECURSIVE SplitWords(_, _, _)
SplitWords(s, i, word) ==
    IF i > Len(s) THEN (IF word = <<>> THEN {} ELSE {word})
    ELSE IF IsSpace(s[i])
    THEN (IF word = <<>> THEN {} ELSE {word}) \cup SplitWords(s, i + 1, <<>>)
    ELSE SplitWords(s, i + 1, Append(word, s[i]))

\* set(query_text.lower().split())
QueryTerms(query) == SplitWords(LowerStr(query), 1, <<>>)

IsSubstring(term, s) ==
    \E b \in 0..(Len(s) - Len(term)) : SubSeq(s, b + 1, b + Len(term)) = term

\* _score_unit without unit.lower().
ScoreUnitCaseSensitive(unit, query_terms) ==
    IF query_terms = {} THEN 0
    ELSE IF \E t \in query_terms : IsSubstring(t, unit) THEN ScoreUnit
    ELSE 0

\* _score_unit: 1.0 if any query term occurs in the lower-cased unit, else 0.0
ScoreUnitOf(unit, query_terms) ==
    IF query_terms = {} THEN 0
    ELSE IF \E t \in query_terms : IsSubstring(t, LowerStr(unit)) THEN ScoreUnit
    ELSE 0

RECURSIVE JoinSpace(_)
JoinSpace(segs) ==
    IF segs = <<>> THEN <<>>
    ELSE IF Len(segs) = 1 THEN segs[1]
    ELSE segs[1] \o <<" ">> \o JoinSpace(Tail(segs))

Threshold == (ScoreUnit \div 10) * ThresholdTenths

\* not original_text: None or the empty string.
Falsy(opt) == opt = None \/ opt[1] = <<>>

\* content_fetcher(source_pointer, user_context)
Fetch(fetcher, source_pointer, user_context) ==
    CASE fetcher = "open" -> Some(TextFetched)
      [] fetcher = "secure" ->
            IF user_context = "valid" /\ source_pointer = "secret"
            THEN Some(TextFetched) ELSE None
      [] OTHER -> None

\* The loop body of distill for a Scout whose config.threshold is thr.
DistillHitAt(thr, fetcher, query_terms, hit, user_context) ==
    LET original_text ==
            IF Falsy(hit.original_text) /\ fetcher # "none" /\ hit.source_pointer # "None"
            THEN Fetch(fetcher, hit.source_pointer, user_context)
            ELSE hit.original_text
    IN IF Falsy(original_text) THEN [hit EXCEPT !.distilled_text = <<>>]
       ELSE LET segments == Segment(original_text[1])
                relevant_segments ==
                    SelectSeq(segments,
                              LAMBDA seg : ScoreUnitOf(seg, query_terms) > thr)
            IN [hit EXCEPT !.distilled_text = JoinSpace(relevant_segments)]

\* The Scout of the default ScoutConfig.
DistillHit(fetcher, query_terms, hit, user_context) ==
    DistillHitAt(Threshold, fetcher, query_terms, hit, user_context)

DistillAt(thr, fetcher, query, hits, user_context) ==
    [i \in 1..Len(hits) |->
        DistillHitAt(thr, fetcher, QueryTerms(query), hits[i], user_context)]

Distill(fetcher, query, hits, user_context) ==
    [i \in 1..Len(hits) |-> DistillHit(fetcher, QueryTerms(query), hits[i], user_context)]

\* The fetcher is called for a hit without text that carries a pointer.
FetcherCalled(fetcher, hit) ==
    Falsy(hit.original_text) /\ fetcher # "none" /\ hit.source_pointer # "None"

\* A bug in which distill skips the hits whose fetch failed.
DistillCallTolerant(fetcher, query, hits, user_context) ==
    [raised |-> FALSE, hits |-> Distill(fetcher, query, hits, user_context)]

\* A call of distill: the fetcher's exception is not caught in the loop, so it
\* leaves distill and no list is returned.
DistillCall(fetcher, query, hits, user_context) ==
    IF fetcher = "exploding" /\ \E i \in 1..Len(hits) : FetcherCalled(fetcher, hits[i])
    THEN [raised |-> TRUE, hits |-> <<>>]
    ELSE [raised |-> FALSE, hits |-> Distill(fetcher, query, hits, user_context)]

\* --------------------------------------------------------- matches_filters
\* A JSON value carries its Python type: "null", "int", "str", "list", "dict".
VNull == [t |-> "null", v |-> 0]
VInt(n) == [t |-> "int", v |-> n]
VStr(x) == [t |-> "str", v |-> x]
VList(xs) == [t |-> "list", v |-> xs]
VDict(d) == [t |-> "dict", v |-> d]

\* Python ==, between values of the modelled types.
ValEq(a, b) == a.t = b.t /\ a.v = b.v

ValIn(a, xs) == \E i \in 1..Len(xs) : ValEq(a, xs[i])

\* A mapping is a function from its keys; a filter node is the sequence of its
\* entries [key, operand], key being "$or", "$and", "$not", another "$..."
\* key, or "field" with the dotted path split at the dots.
RECURSIVE GetValueByPath(_, _)
GetValueByPath(data, keys) ==
    IF keys = <<>> THEN data
    ELSE IF data.t = "dict"
         THEN GetValueByPath(IF Head(keys) \in DOMAIN data.v
                             THEN data.v[Head(keys)] ELSE VNull,
                             Tail(keys))
         ELSE VNull

\* The ordering operators raise TypeError on operands of different types,
\* which check_single_op turns into False.
Comparable(value, target) == value.t = "int" /\ target.t = "int"

CheckSingleOp(op, value, target) ==
    CASE op = "$eq" -> ValEq(value, target)
      [] op = "$ne" -> ~ValEq(value, target)
      [] op = "$gt" -> value.t # "null" /\ Comparable(value, target) /\ value.v > target.v
      [] op = "$gte" -> value.t # "null" /\ Comparable(value, target) /\ value.v >= target.v
      [] op = "$lt" -> value.t # "null" /\ Comparable(value, target) /\ value.v < target.v
      [] op = "$lte" -> value.t # "null" /\ Comparable(value, target) /\ value.v <= target.v
      [] op = "$in" -> IF target.t = "list" THEN ValIn(value, target.v)
                       ELSE ValEq(value, target)
      [] op = "$nin" -> IF target.t = "list" THEN ~ValIn(value, target.v)
                        ELSE ~ValEq(value, target)
      [] OTHER -> TRUE

\* condition: the sequence of the [op, target] items of an operator table.
CheckConditionOperators(value, condition) ==
    \A i \in 1..Len(condition) :
        CheckSingleOp(condition[i].op, value, condition[i].target)

RecognisedOps == {"$eq", "$ne", "$gt", "$gte", "$lt", "$lte", "$in", "$nin"}

\* A reading that takes a mapping without a recognised operator for a nested
\* mapping the value has to equal.
FieldMatchesNestedEquality(value, operand) ==
    IF operand.t = "dict"
    THEN IF \E i \in 1..Len(operand.v) : operand.v[i].op \in RecognisedOps
         THEN CheckConditionOperators(value, operand.v)
         ELSE /\ value.t = "dict"
              /\ DOMAIN value.v = {operand.v[i].op : i \in 1..Len(operand.v)}
              /\ \A i \in 1..Len(operand.v) :
                    ValEq(value.v[operand.v[i].op], operand.v[i].target)
    ELSE IF value.t = "list" /\ operand.t # "list" THEN ValIn(operand, value.v)
    ELSE ValEq(value, operand)

FieldMatches(value, operand) ==
    IF operand.t = "dict" THEN CheckConditionOperators(value, operand.v)
    ELSE IF value.t = "list" /\ operand.t # "list" THEN ValIn(operand, value.v)
    ELSE ValEq(value, operand)

\* A reading that skips an $or or $and whose operand is not a list.
RECURSIVE MatchesFiltersSkipping(_, _)
MatchesFiltersSkipping(metadata, filters) ==
    \A i \in 1..Len(filters) :
        LET e == filters[i]
        IN CASE e.key = "$or" ->
                    e.operand.t = "list" =>
                        \E j \in 1..Len(e.operand.v) :
                            MatchesFiltersSkipping(metadata, e.operand.v[j])
             [] e.key = "$and" ->
                    e.operand.t = "list" =>
                        \A j \in 1..Len(e.operand.v) :
                            MatchesFiltersSkipping(metadata, e.operand.v[j])
             [] e.key = "$not" -> ~MatchesFiltersSkipping(metadata, e.operand.v)
             [] e.key = "field" ->
                    FieldMatches(GetValueByPath(VDict(metadata), e.path), e.operand)
             [] OTHER -> TRUE

RECURSIVE MatchesFilters(_, _)
MatchesFilters(metadata, filters) ==
    \A i \in 1..Len(filters) :
        LET e == filters[i]
        IN CASE e.key = "$or" ->
                    /\ e.operand.t = "list"
                    /\ \E j \in 1..Len(e.operand.v) :
                           MatchesFilters(metadata, e.operand.v[j])
             [] e.key = "$and" ->
                    /\ e.operand.t = "list"
                    /\ \A j \in 1..Len(e.operand.v) :
                           MatchesFilters(metadata, e.operand.v[j])
             [] e.key = "$not" -> ~MatchesFilters(metadata, e.operand.v)
             [] e.key = "field" ->
                    FieldMatches(GetValueByPath(VDict(metadata), e.path), e.operand)
             [] OTHER -> TRUE

\* `if request.filters:` is false for None and for the empty mapping.
NoFilters == <<>>

Field(path, operand) == [key |-> "field", path |-> path, operand |-> operand]
Ops(items) == VDict(items)

\* {"val": {"$gt": 10}}
FilterGt10 == <<Field(<<"val">>, Ops(<<[op |-> "$gt", target |-> VInt(10)]>>))>>

\* {"$or": [{"val": 5}, {"tags": 7}]}
FilterOr ==
    <<[key |-> "$or", path |-> <<>>,
       operand |-> VList(<<<<Field(<<"val">>, VInt(5))>>,
                           <<Field(<<"tags">>, VInt(7))>> >>)]>>

FilterPool == {NoFilters, FilterGt10, FilterOr}

\* ------------------------------------------------ backend rows and mapping
\* The metadata column is a JSON string; json.loads turns it into a mapping and
\* the empty string stands for no metadata.
JsonText(md) == [empty |-> FALSE, json |-> md]
EmptyText == [empty |-> TRUE, json |-> <<>>]

JsonLoads(text) == IF text.empty THEN <<>> ELSE text.json

MetadataTexts ==
    {JsonText([val |-> VInt(5)]),
     JsonText([val |-> VInt(15)]),
     EmptyText}

\* The i-th row the backend returns for the query: relevance falls with i.
Row(i, text) ==
    [doc_id |-> ToString(i), content |-> TextShort, metadata |-> text,
     score |-> ScoreUnit \div (i + 1),
     distance |-> ScoreUnit - ScoreUnit \div (i + 1)]

Tables ==
    {[i \in 1..Len(texts) |-> Row(i, texts[i])] : texts \in SeqsUpTo(MetadataTexts, MaxRows)}

Max(a, b) == IF a > b THEN a ELSE b

\* limit = top_k, or max(top_k * 10, 100) when the request has filters.
RetrieveLimit(req) ==
    IF req.filters # NoFilters
    THEN Max(req.top_k * OversampleFactor, OversampleMin)
    ELSE req.top_k

\* SparseRetriever._map_single_result
MapSingleResult(item) ==
    [doc_id |-> item.doc_id, content |-> Some(item.content),
     original_text |-> Some(item.content), distilled_text |-> <<>>,
     score |-> item.score, source_pointer |-> "None",
     source_strategy |-> "lance_fts", metadata |-> JsonLoads(item.metadata)]

\* The Hit DenseRetriever.retrieve builds from a row: score = 1.0 - _distance.
MapDenseResult(item) ==
    [doc_id |-> item.doc_id, content |-> Some(item.content),
     original_text |-> Some(item.content), distilled_text |-> <<>>,
     score |-> ScoreUnit - item.distance, source_pointer |-> "None",
     source_strategy |-> "lance_dense", metadata |-> JsonLoads(item.metadata)]

MapSeq(f(_), xs) == [i \in 1..Len(xs) |-> f(xs[i])]

PassFilters(req, hits) ==
    IF req.filters # NoFilters
    THEN SelectSeq(hits, LAMBDA h : MatchesFilters(h.metadata, req.filters))
    ELSE hits

\* SparseRetriever.retrieve over the rows the backend returns for the query.
SparseRetrieverRetrieve(req, rows) ==
    LET results_list == Take(rows, RetrieveLimit(req))
        hits == PassFilters(req, MapSeq(MapSingleResult, results_list))
    IN Take(hits, req.top_k)

\* DenseRetriever.retrieve over the rows the backend returns for the vector.
DenseRetrieverRetrieve(req, rows) ==
    LET results_list == Take(rows, RetrieveLimit(req))
        hits == PassFilters(req, MapSeq(MapDenseResult, results_list))
    IN Take(hits, req.top_k)

\* ---------------------------------------------------------- GraphRetriever
\* The nodes of the knowledge graph, by node_id.
GraphNodes ==
    [q1 |-> [node_id |-> "q1", label |-> "Protein", name |-> "Protein X",
             properties |-> <<>>],
     q2 |-> [node_id |-> "q2", label |-> "Protein", name |-> "Protein Y",
             properties |-> <<>>],
     pA |-> [node_id |-> "pA", label |-> "Paper", name |-> "Study A",
             properties |-> [content |-> VStr(TextShort), val |-> VInt(15)]],
     pB |-> [node_id |-> "pB", label |-> "Paper", name |-> "Study B",
             properties |-> [val |-> VInt(5)]],
     ae |-> [node_id |-> "ae", label |-> "AdverseEvent", name |-> "Liver Failure",
             properties |-> <<>>],
     ah |-> [node_id |-> "ah", label |-> "AdverseEvent", name |-> "Headache",
             properties |-> <<>>]]

\* The names an AdverseEvent node can have, in sorted() order.
AdverseEventNames == <<"Headache", "Liver Failure">>

Edge(a, b) == [source |-> a, target |-> b]

\* The edges a graph is drawn from, in the order the client lists them.
EdgePool ==
    <<Edge("q1", "pA"), Edge("q1", "pB"), Edge("q2", "pA"),
      Edge("pA", "ae"), Edge("pA", "ah"), Edge("pB", "pA")>>

StartNodeLists == {<<>>, <<"q1">>, <<"q1", "q2">>}

\* search_nodes(query_text) returns the start nodes; the edges are the pool's
\* edges at the chosen positions.
Graphs ==
    {[start |-> st,
      edges |-> SelectSeq([i \in 1..Len(EdgePool) |-> [n |-> i, e |-> EdgePool[i]]],
                          LAMBDA x : x.n \in keep)]
        : st \in StartNodeLists, keep \in SUBSET (1..Len(EdgePool))}

EmptyGraph == [start |-> <<>>, edges |-> <<>>]

\* MockGraphClient.get_neighbors: the other end of every edge at node_id.
GetNeighbors(g, node_id) ==
    LET F[i \in 0..Len(g.edges)] ==
            IF i = 0 THEN <<>>
            ELSE LET edge == g.edges[i].e
                 IN IF edge.source = node_id THEN Append(F[i - 1], GraphNodes[edge.target])
                    ELSE IF edge.target = node_id
                         THEN Append(F[i - 1], GraphNodes[edge.source])
                         ELSE F[i - 1]
    IN F[Len(g.edges)]

\* GraphRetriever._create_hit
CreateHit(paper_node, adverse_events_set) ==
    LET props == paper_node.properties
        content == IF "content" \in DOMAIN props THEN props["content"].v ELSE <<>>
        sorted == SelectSeq(AdverseEventNames, LAMBDA n : n \in adverse_events_set)
    IN [doc_id |-> paper_node.node_id, content |-> Some(content),
        original_text |-> Some(content), distilled_text |-> <<>>,
        score |-> ScoreUnit, source_pointer |-> "None",
        source_strategy |-> "graph_neighbor",
        metadata |-> ("connected_adverse_events" :>
                          VList([i \in 1..Len(sorted) |-> VStr(sorted[i])])) @@ props]

\* GraphRetriever._validate_and_add_paper; acc is [hits, seen_ids].
ValidateAndAddPaper(g, paper_node, acc) ==
    LET paper_neighbors == GetNeighbors(g, paper_node.node_id)
        adverse_events_set ==
            {paper_neighbors[i].name : i \in
                {j \in 1..Len(paper_neighbors) : paper_neighbors[j].label = "AdverseEvent"}}
    IN IF adverse_events_set # {}
       THEN [hits |-> Append(acc.hits, CreateHit(paper_node, adverse_events_set)),
             seen |-> acc.seen \cup {paper_node.node_id}]
       ELSE acc

\* _process_start_node without the seen_ids test.
ProcessStartNodeUnseen(g, node_id, acc) ==
    LET neighbors == GetNeighbors(g, node_id)
        F[i \in 0..Len(neighbors)] ==
            IF i = 0 THEN acc
            ELSE IF neighbors[i].label = "Paper"
                 THEN ValidateAndAddPaper(g, neighbors[i], F[i - 1])
                 ELSE F[i - 1]
    IN F[Len(neighbors)]

\* GraphRetriever._process_start_node
ProcessStartNode(g, node_id, acc) ==
    LET neighbors == GetNeighbors(g, node_id)
        F[i \in 0..Len(neighbors)] ==
            IF i = 0 THEN acc
            ELSE IF neighbors[i].label = "Paper" /\ neighbors[i].node_id \notin F[i - 1].seen
                 THEN ValidateAndAddPaper(g, neighbors[i], F[i - 1])
                 ELSE F[i - 1]
    IN F[Len(neighbors)]

\* GraphRetriever.retrieve: request.filters is not read.
GraphRetrieverRetrieve(req, g) ==
    IF g.start = <<>> THEN <<>>
    ELSE LET F[i \in 0..Len(g.start)] ==
                 IF i = 0 THEN [hits |-> <<>>, seen |-> {}]
                 ELSE ProcessStartNode(g, g.start[i], F[i - 1])
         IN Take(F[Len(g.start)].hits, req.top_k)


\* ------------------------------------------------- utils/query_parser.py
FIELD_MAPPING ==
    (<<"t", "i">> :> <<"t", "i", "t", "l", "e">>)
        @@ (<<"t", "i", "t", "l", "e">> :> <<"t", "i", "t", "l", "e">>)
        @@ (<<"a", "b">> :> <<"a", "b", "s", "t", "r", "a", "c", "t">>)
        @@ (<<"a", "b", "s", "t", "r", "a", "c", "t">> :> <<"a", "b", "s", "t", "r", "a", "c", "t">>)
        @@ (<<"t", "i", "a", "b">> :> <<"t", "i", "t", "l", "e", "_", "a", "b", "s", "t", "r", "a", "c", "t">>)
        @@ (<<"m", "e", "s", "h">> :> <<"m", "e", "s", "h", "_", "t", "e", "r", "m", "s">>)
        @@ (<<"m", "h">> :> <<"m", "e", "s", "h", "_", "t", "e", "r", "m", "s">>)

TitleAbstract == <<"t", "i", "t", "l", "e", "_", "a", "b", "s", "t", "r", "a", "c", "t">>

\* _map_tags_to_fields: the mapped field, the tag itself when it is not
\* mapped, and title and abstract for a tag mapped to title_abstract.
RECURSIVE MapTagsToFields(_)
MapTagsToFields(tags) ==
    IF tags = <<>> THEN <<>>
    ELSE LET t == Head(tags)
             field == IF t \in DOMAIN FIELD_MAPPING THEN FIELD_MAPPING[t] ELSE t
         IN (IF field = TitleAbstract THEN <<<<"t", "i", "t", "l", "e">>, <<"a", "b", "s", "t", "r", "a", "c", "t">>>> ELSE <<field>>)
                \o MapTagsToFields(Tail(tags))

\* str.lower() on the letters of the model's queries.
TagLower(c) == IF c = "T" THEN "t" ELSE c

\* tag_raw.split("/")
RECURSIVE SplitSlash(_)
SplitSlash(str) ==
    IF \E i \in 1..Len(str) : str[i] = "/"
    THEN LET i == CHOOSE n \in 1..Len(str) :
                      str[n] = "/" /\ \A m \in 1..(n - 1) : str[m] # "/"
         IN <<SubSeq(str, 1, i - 1)>> \o SplitSlash(SubSeq(str, i + 1, Len(str)))
    ELSE <<str>>

\* [t.strip().lower() for t in tag_raw.split("/")]
ParseTags(tag_raw) ==
    LET parts == SplitSlash(tag_raw)
    IN [i \in 1..Len(parts) |->
           LET stripped == Strip(parts[i])
           IN [j \in 1..Len(stripped) |-> TagLower(stripped[j])]]

\* [^\s()\[\]]
InTermClass(c) == c \notin {" ", "(", ")", "[", "]"}

\* \s*\[(.*?)\] from position p: [ok, tag, last].
MatchTag(str, p) ==
    LET spaces == {q \in p..Len(str) : \A r \in p..q : str[r] = " "}
        open == p + Cardinality(spaces)
        closes == {k \in (open + 1)..Len(str) : str[k] = "]"}
    IN IF open <= Len(str) /\ str[open] = "[" /\ closes # {}
       THEN LET close == CHOOSE k \in closes : \A m \in closes : k <= m
            IN [ok |-> TRUE, tag |-> SubSeq(str, open + 1, close - 1), last |-> close]
       ELSE [ok |-> FALSE, tag |-> <<>>, last |-> 0]

NoMatch == [ok |-> FALSE, term |-> <<>>, tag |-> <<>>, last |-> 0]

\* (["'])(.*?)\1 at position i followed by the tag: the nearest closing quote
\* after which the tag matches.
MatchQuoted(str, i) ==
    LET ends == {j \in (i + 1)..Len(str) : str[j] = str[i] /\ MatchTag(str, j + 1).ok}
    IN IF str[i] \in {"\"", "'"} /\ ends # {}
       THEN LET j == CHOOSE e \in ends : \A m \in ends : e <= m
                rest == MatchTag(str, j + 1)
            IN [ok |-> TRUE,
                term |-> <<"\"">> \o SubSeq(str, i + 1, j - 1) \o <<"\"">>,
                tag |-> rest.tag, last |-> rest.last]
       ELSE NoMatch

\* ([^\s()\[\]]+) at position i followed by the tag: the whole run of term
\* characters, a shorter one cannot be followed by a space or a bracket.
MatchUnquoted(str, i) ==
    LET run == {j \in i..Len(str) : \A r \in i..j : InTermClass(str[r])}
        j == i + Cardinality(run) - 1
        rest == MatchTag(str, j + 1)
    IN IF run # {} /\ rest.ok
       THEN [ok |-> TRUE, term |-> SubSeq(str, i, j), tag |-> rest.tag, last |-> rest.last]
       ELSE NoMatch

\* pattern.match at position i: the quoted alternative is tried first.
MatchAt(str, i) ==
    IF MatchQuoted(str, i).ok THEN MatchQuoted(str, i) ELSE MatchUnquoted(str, i)

\* " OR ".join(clauses)
RECURSIVE JoinOr(_)
JoinOr(clauses) ==
    IF clauses = <<>> THEN <<>>
    ELSE IF Len(clauses) = 1 THEN clauses[1]
    ELSE clauses[1] \o <<" ", "O", "R", " ">> \o JoinOr(Tail(clauses))

\* replace_match
ReplaceMatch(m) ==
    LET mapped_fields == MapTagsToFields(ParseTags(m.tag))
        clauses == [i \in 1..Len(mapped_fields) |-> mapped_fields[i] \o <<":">> \o m.term]
    IN IF Len(mapped_fields) > 1 THEN <<"(">> \o JoinOr(clauses) \o <<")">>
       ELSE clauses[1]

\* pattern.sub(replace_match, query) from position i on: leftmost matches,
\* one after the other, the text between them copied.
RECURSIVE SubFrom(_, _)
SubFrom(str, i) ==
    IF i > Len(str) THEN <<>>
    ELSE LET m == MatchAt(str, i)
         IN IF m.ok THEN ReplaceMatch(m) \o SubFrom(str, m.last + 1)
            ELSE <<str[i]>> \o SubFrom(str, i + 1)

parse_pubmed_query(query) == IF query = <<>> THEN <<>> ELSE SubFrom(query, 1)

\* ------------------------------------------------------------------ db.py
EngineIds == 1..MaxEngines
DatabaseUris == {"db_a", "db_b"}
DocPool == {"doc_a", "doc_b"}

\* LanceDBManager.__init__'s default uri, and the name of the one table.
DefaultUri == "/tmp/lancedb"
DefaultTableName == "documents"

NoManager == [uri |-> "None"]
LanceDBManager(uri) == [uri |-> uri]

\* get_db_manager(uri): the singleton after the call, which is what the call
\* returns. uri = None is the call without an argument.
GetDbManager(singleton, uri) ==
    IF uri # None
    THEN IF singleton = NoManager \/ singleton.uri # uri[1]
         THEN LanceDBManager(uri[1])
         ELSE singleton
    ELSE IF singleton = NoManager THEN LanceDBManager(DefaultUri) ELSE singleton

\* LanceDBManager.get_table(): the handle of the table in the manager's
\* database, opened or created.
GetTable(manager) == [uri |-> manager.uri, name |-> DefaultTableName]

NoRetriever == [db_manager |-> NoManager, table |-> [uri |-> "None", name |-> "None"]]

\* DenseRetriever() and SparseRetriever(): the manager is asked for without a
\* uri and the table is bound once.
NewRetriever(singleton) ==
    LET manager == GetDbManager(singleton, None)
    IN [db_manager |-> manager, table |-> GetTable(manager)]

\* A bug in which a retriever asks the singleton for its table at each search.
SearchTableOfSingleton(retriever, singleton) == GetTable(GetDbManager(singleton, None))

\* self.table.search(...): the table the retriever was constructed with.
SearchTable(retriever, singleton) == retriever.table

\* ------------------------------------------------------------------ state
VARIABLES
    mode,             \* which public operation this run performs
    request,          \* the SearchRequest
    content_fetcher,  \* the Scout's fetcher hook
    pc,               \* position in the operation
    idx,              \* 1-based index of the strategy the loop is at
    inflight,         \* strategy indices whose retrieval has not returned
    peak_inflight,    \* history: the most retrievals ever in flight together
    all_hits,         \* execute: the collected per-strategy lists
    contributed,      \* history: what each strategy's retrieval produced
    fused_hits,
    reranked_hits,
    distill_calls,    \* history: user_context argument of each distill call
    error_source,     \* history: the stage whose exception left execute
    response,
    count,            \* execute_systematic: the local counter
    delivered,        \* history: hits the consumer has received from the stream
    produced,         \* hits the current sparse generator has produced
    dense_pending,    \* hits of the dense list not yet yielded
    exit_kind,        \* how the try block was left: "normal", "closed", "error"
    audit,            \* history: the log_audit calls made, in order
    backend_errors,   \* history: strategy indices whose backend raised
    invoked,          \* history: strategy indices whose retriever was called
    outcome,          \* how the stream ended for the consumer
    backend_calls,    \* history: the requests made to the search backend
    fusion_k,         \* FusionEngine.k
    table,            \* the rows the backend holds for the query, in its order
    graph,            \* the knowledge graph behind the graph client
    cursor,           \* rows the retrieve_systematic generator has gone through
    stream,           \* the hits the retrieve_systematic generator has yielded
    db_manager,       \* db._DB_MANAGER, the module's singleton
    engines,          \* the SearchEngine objects and how far each constructor is
    databases,        \* per database uri, the doc ids in its "documents" table
    found,            \* per engine, the doc ids its last search returned
    threshold,        \* ScoutConfig.threshold
    returned          \* what a function called on its own returned

execVars == <<inflight, peak_inflight, all_hits, contributed, fused_hits, reranked_hits,
              distill_calls, error_source, response>>

sysVars == <<count, delivered, produced, dense_pending, exit_kind, audit,
             backend_errors, invoked, outcome, backend_calls>>

\* The state of engine construction.
ctorVars == <<db_manager, engines, databases, found>>

\* The state of the components exercised on their own.
\* The configuration and the result of a single call.
unitVars == <<threshold, returned>>

compVars == <<fusion_k, table, graph, cursor, stream, ctorVars, unitVars>>

vars == <<mode, request, content_fetcher, pc, idx, execVars, sysVars, compVars>>

NoResponse == [status |-> "none", hits |-> <<>>, total_found |-> 0, provenance_hash |-> <<>>]

Pending == [status |-> "pending", hits |-> <<>>]

\* What a retriever's retrieve(request) can do: return a list of hits or raise.
RetrieveOutcomes ==
    {[status |-> "returned", hits |-> h] : h \in HitLists}
        \cup {[status |-> "raised", hits |-> <<>>]}

\* repr of the list of doc ids, as f"{[h.doc_id for h in final_hits]}" prints it.
RECURSIVE ReprItems(_)
ReprItems(ids) ==
    IF ids = <<>> THEN <<>>
    ELSE IF Len(ids) = 1 THEN <<"'", ids[1], "'">>
    ELSE <<"'", ids[1], "'", ",", " ">> \o ReprItems(Tail(ids))

ReprList(ids) == <<"[">> \o ReprItems(ids) \o <<"]">>

\* A bug in which the hashed string also carries the first hit's score.
ProvStrWithScore(query, final_hits) ==
    query \o ReprList(DocIds(final_hits))
          \o (IF final_hits = <<>> THEN <<>> ELSE <<final_hits[1].score>>)

\* prov_str = f"{request.query}{[h.doc_id for h in final_hits]}"
ProvStr(query, final_hits) == query \o ReprList(DocIds(final_hits))

\* hashlib.sha256(...).hexdigest(): a digest that is determined by its input.
Sha256(str) == <<"sha256">> \o str

\* execute_systematic reads only query and strategies of the request and never
\* runs the Scout: the other fields are left at their defaults in that mode.
SystematicRequest ==
    {r \in SearchRequest :
        /\ r.fusion_enabled /\ r.rerank_enabled /\ r.distill_enabled
        /\ r.top_k = MaxTopK /\ r.user_context = "None"}

\* get_table_version() of the sparse retriever: a version, or it raises.
TableVersions == {3}
VersionOutcomes ==
    {[raised |-> FALSE, version |-> v] : v \in TableVersions}
        \cup {[raised |-> TRUE, version |-> 0]}

\* The fetcher hook and the caller's identity are read by the Scout alone, and
\* the identity only by a fetcher that checks it: they vary where they are read.
ScoutSetups ==
    {<<f, "None">> : f \in Fetchers} \cup {<<"secure", u>> : u \in UserContexts}

\* The setups vary under the largest top_k, where the Scout sees the most hits.
ExecuteSetup(req, fetcher) ==
    IF req.distill_enabled /\ req.top_k = MaxTopK
    THEN <<fetcher, req.user_context>> \in ScoutSetups
    ELSE fetcher = "none" /\ req.user_context = "None"

Init ==
    /\ mode \in {"execute", "systematic"}
    /\ IF mode = "execute"
       THEN /\ request \in SearchRequest
            /\ content_fetcher \in Fetchers
            /\ ExecuteSetup(request, content_fetcher)
       ELSE request \in SystematicRequest /\ content_fetcher = "none"
    /\ pc = IF mode = "execute" THEN "retrieve" ELSE "created"
    /\ count = 0
    /\ delivered = 0
    /\ produced = 0
    /\ dense_pending = <<>>
    /\ exit_kind = "none"
    /\ audit = <<>>
    /\ backend_errors = {}
    /\ invoked = {}
    /\ outcome = "none"
    /\ backend_calls = <<>>
    /\ fusion_k = RrfK
    /\ threshold = Threshold
    /\ returned = <<>>
    /\ table = <<>>
    /\ graph = EmptyGraph
    /\ cursor = 0
    /\ stream = <<>>
    /\ db_manager = NoManager
    /\ engines = <<>>
    /\ databases = <<>>
    /\ found = <<>>
    /\ idx = 1
    /\ inflight = {}
    /\ peak_inflight = 0
    /\ all_hits = <<>>
    /\ contributed = [i \in 1..Len(request.strategies) |-> Pending]
    /\ fused_hits = <<>>
    /\ reranked_hits = <<>>
    /\ distill_calls = <<>>
    /\ error_source = "none"
    /\ response = NoResponse

\* ------------------------------------------------ SearchEngineAsync.execute
\* The loop dispatches strategy i when it has reached i and is not awaiting.
CanDispatch(i) == i = idx /\ inflight = {}

\* hits = await to_thread.run_sync(self.<retriever>.retrieve, request)
DispatchRetrieval ==
    /\ mode = "execute" /\ pc = "retrieve"
    /\ \E i \in 1..Len(request.strategies) :
          /\ i \notin inflight
          /\ contributed[i].status = "pending"
          /\ CanDispatch(i)
          /\ inflight' = inflight \cup {i}
          /\ peak_inflight' = IF Cardinality(inflight') > peak_inflight
                              THEN Cardinality(inflight') ELSE peak_inflight
    /\ UNCHANGED sysVars
    /\ UNCHANGED <<mode, compVars, request, content_fetcher, pc, idx, all_hits, contributed,
                   fused_hits, reranked_hits, distill_calls, error_source, response>>

\* A bug in which a later strategy's list is put in front of the earlier ones.
CollectInFront(collected, result) ==
    IF result.status = "returned" /\ result.hits # <<>>
    THEN <<result.hits>> \o collected
    ELSE collected

\* What the loop body does with a retrieval's outcome: a non-empty list is
\* appended, an exception is logged and the strategy is omitted.
Collect(collected, result) ==
    IF result.status = "returned" /\ result.hits # <<>>
    THEN Append(collected, result.hits)
    ELSE collected

\* A bug in which the strategy's exception leaves execute.
AfterRetrievalPropagate(result, last) ==
    IF result.status = "raised" THEN "raised"
    ELSE IF last THEN "fusion" ELSE "retrieve"

\* Where execute goes once a retrieval has returned or raised: the exception
\* is caught inside the loop body, so the loop goes on either way.
AfterRetrieval(result, last) == IF last THEN "fusion" ELSE "retrieve"

RetrievalReturns ==
    /\ mode = "execute" /\ pc = "retrieve"
    /\ \E i \in inflight, result \in RetrieveOutcomes :
          /\ inflight' = inflight \ {i}
          /\ contributed' = [contributed EXCEPT ![i] = result]
          /\ all_hits' = Collect(all_hits, result)
          /\ idx' = idx + 1
          /\ pc' = AfterRetrieval(result, idx + 1 > Len(request.strategies))
          /\ error_source' = IF pc' = "raised" THEN "retriever" ELSE error_source
    /\ UNCHANGED sysVars
    /\ UNCHANGED <<mode, compVars, request, content_fetcher, peak_inflight, fused_hits,
                   reranked_hits, distill_calls, response>>

\* A bug in which the concatenation is not deduplicated.
ConcatOnly(lists) == Flatten(lists)

\* flat_hits deduplicated by doc_id, first occurrence kept.
DedupByDocId(lists) == KeepFirst(Flatten(lists))

FusionStep(req, lists) ==
    IF req.fusion_enabled /\ Len(lists) > 0 THEN Fuse(lists) ELSE DedupByDocId(lists)

Fusion ==
    /\ mode = "execute" /\ pc = "fusion"
    /\ fused_hits' = FusionStep(request, all_hits)
    /\ pc' = "rerank"
    /\ UNCHANGED sysVars
    /\ UNCHANGED <<mode, compVars, request, content_fetcher, idx, inflight, peak_inflight, all_hits,
                   contributed, reranked_hits, distill_calls, error_source, response>>

RerankCandidates(fused) == Take(fused, RerankWindow)

\* A bug in which the list is passed on in full when the re-ranker is off.
TruncateNone(fused, top_k) == fused

\* The hits kept when the re-ranker is not run.
Truncate(fused, top_k) == Take(fused, top_k)

ReRanking ==
    /\ mode = "execute" /\ pc = "rerank"
    /\ LET rerank_candidates == RerankCandidates(fused_hits)
       IN IF request.rerank_enabled /\ rerank_candidates # <<>>
          THEN IF RerankRaises(rerank_candidates)
               THEN /\ pc' = "raised"
                    /\ error_source' = "reranker"
                    /\ UNCHANGED reranked_hits
               ELSE /\ reranked_hits' =
                          Rerank(request.query, rerank_candidates, request.top_k)
                    /\ pc' = "scout"
                    /\ UNCHANGED error_source
          ELSE /\ reranked_hits' = Truncate(fused_hits, request.top_k)
               /\ pc' = "scout"
               /\ UNCHANGED error_source
    /\ UNCHANGED sysVars
    /\ UNCHANGED <<mode, compVars, request, content_fetcher, idx, inflight, peak_inflight, all_hits,
                   contributed, fused_hits, distill_calls, response>>

\* The user_context argument execute hands to scout.distill.
DistillContextArg(req) == "None"

BuildResponse(query, final_hits) ==
    [status |-> "returned",
     hits |-> final_hits,
     total_found |-> Len(final_hits),
     provenance_hash |-> Sha256(ProvStr(query, final_hits))]

ScoutAndRespond ==
    /\ mode = "execute" /\ pc = "scout"
    /\ IF request.distill_enabled /\ reranked_hits # <<>>
       THEN LET ctx == DistillContextArg(request)
                call == DistillCall(content_fetcher, request.query, reranked_hits, ctx)
            IN /\ distill_calls' = Append(distill_calls, ctx)
               /\ IF call.raised
                  THEN /\ pc' = "raised"
                       /\ error_source' = "scout"
                       /\ UNCHANGED response
                  ELSE /\ pc' = "done"
                       /\ response' = BuildResponse(request.query, call.hits)
                       /\ UNCHANGED error_source
       ELSE /\ distill_calls' = distill_calls
            /\ response' = BuildResponse(request.query, reranked_hits)
            /\ pc' = "done"
            /\ UNCHANGED error_source
    /\ UNCHANGED sysVars
    /\ UNCHANGED <<mode, compVars, request, content_fetcher, idx, inflight, peak_inflight, all_hits,
                   contributed, fused_hits, reranked_hits>>

\* --------------------------------- SearchEngineAsync.execute_systematic
\* veritas.log_audit(event, data): the call is recorded; the sink may raise.
LogAudit(log, event, data, ok) == Append(log, [event |-> event, data |-> data, ok |-> ok])

StartData(req, version) ==
    [query |-> req.query,
     strategies |-> req.strategies,
     snapshot_id |-> IF version.raised THEN -1 ELSE version.version]

\* A bug in which the hit the generator is suspended at is counted as well.
CompleteDataInclusive(n) == [total_found |-> n + 1]

CompleteData(n) == [total_found |-> n]

\* A bug in which the counter is never incremented.
CountNotIncremented(c) == c

\* count += 1, the statement after `yield hit`.
CountAfterResume(c) == c + 1

\* A START logged inside the try block: its exception runs the finally block.
AfterStartInsideTry(ok) ==
    IF ok THEN [pc |-> "loop", outcome |-> "none"]
    ELSE [pc |-> "finally", outcome |-> "none"]

\* A bug in which a raising sink is ignored at START.
AfterStartIgnoreSink(ok) == [pc |-> "loop", outcome |-> "none"]

\* log_audit(START) is outside the try block: when it raises, the exception
\* leaves the generator.
AfterStart(ok) ==
    IF ok THEN [pc |-> "loop", outcome |-> "none"]
    ELSE [pc |-> "done", outcome |-> "raised"]

\* The consumer asks for the next item (anext).
ConsumerPull ==
    /\ mode = "systematic"
    /\ \/ /\ pc = "created"
          /\ pc' = "start"
          /\ UNCHANGED <<count, dense_pending>>
       \/ /\ pc = "yield_fts"
          /\ count' = CountAfterResume(count)
          /\ pc' = "fts_next"
          /\ UNCHANGED dense_pending
       \/ /\ pc = "yield_dense"
          /\ count' = CountAfterResume(count)
          /\ dense_pending' = Tail(dense_pending)
          /\ pc' = "dense_iter"
    /\ UNCHANGED <<mode, compVars, backend_calls, request, content_fetcher, idx,
                   execVars, delivered, produced,
                   exit_kind, audit, backend_errors, invoked, outcome>>

\* A bug in which the generator swallows GeneratorExit and goes on with its
\* strategies.
AfterCloseGoesOn == "loop"

\* GeneratorExit is no Exception: no except clause of the generator catches
\* it, and control goes to the finally block.
AfterClose == "finally"

\* The consumer closes the stream (aclose): GeneratorExit is raised at the
\* yield the generator is suspended at; a generator not yet started just ends.
ConsumerClose ==
    /\ mode = "systematic"
    /\ \/ /\ pc = "created"
          /\ pc' = "done"
          /\ outcome' = "closed"
          /\ UNCHANGED exit_kind
       \/ /\ pc \in {"yield_fts", "yield_dense"}
          /\ pc' = AfterClose
          /\ exit_kind' = "closed"
          /\ UNCHANGED outcome
    /\ UNCHANGED <<mode, compVars, backend_calls, request, content_fetcher, idx,
                   execVars, count, delivered,
                   produced, dense_pending, audit, backend_errors, invoked>>

\* Snapshot id, then the START audit; a raising sink ends the generator before
\* the try block is entered.
SystematicStart ==
    /\ mode = "systematic" /\ pc = "start"
    /\ \E version \in VersionOutcomes, ok \in BOOLEAN :
          /\ audit' = LogAudit(audit, "SYSTEMATIC_SEARCH_START",
                                StartData(request, version), ok)
          /\ pc' = AfterStart(ok).pc
          /\ outcome' = AfterStart(ok).outcome
    /\ UNCHANGED <<mode, compVars, backend_calls, request, content_fetcher, idx,
                   execVars, count, delivered,
                   produced, dense_pending, exit_kind, backend_errors, invoked>>

\* for strategy in request.strategies
StrategyLoop ==
    /\ mode = "systematic" /\ pc = "loop"
    /\ IF idx > Len(request.strategies)
       THEN /\ pc' = "finally"
            /\ exit_kind' = "normal"
            /\ UNCHANGED <<idx, invoked, produced>>
       ELSE CASE request.strategies[idx] = "lance_fts" ->
                    /\ pc' = "fts_next"
                    /\ invoked' = invoked \cup {idx}
                    /\ produced' = 0
                    /\ UNCHANGED <<idx, exit_kind>>
              [] request.strategies[idx] = "lance_dense" ->
                    /\ pc' = "dense_retrieve"
                    /\ invoked' = invoked \cup {idx}
                    /\ UNCHANGED <<idx, exit_kind, produced>>
              [] OTHER ->
                    /\ idx' = idx + 1
                    /\ pc' = "loop"
                    /\ UNCHANGED <<exit_kind, invoked, produced>>
    /\ UNCHANGED <<mode, compVars, backend_calls, request, content_fetcher,
                   execVars, count, delivered,
                   dense_pending, audit, backend_errors, outcome>>

\* The one backend request of retrieve_systematic:
\* table.search(query_str, query_type="fts").limit(1000000).to_arrow()
SparseSystematicCall == [op |-> "fts", limit |-> SystematicLimit, offset |-> 0]

\* The backend request of DenseRetriever.retrieve (no filters: limit = top_k).
DenseCall(req) == [op |-> "vector", limit |-> req.top_k, offset |-> 0]

\* What `except Exception` does with an error raised by next(sync_gen).
FtsErrorPc == "loop"

\* hit = await to_thread.run_sync(next, sync_gen); yield hit
FtsNext ==
    /\ mode = "systematic" /\ pc = "fts_next"
    /\ \/ /\ produced < MaxHits
          /\ produced' = produced + 1
          /\ delivered' = delivered + 1
          /\ pc' = "yield_fts"
          /\ UNCHANGED <<idx, backend_errors, exit_kind>>
       \/ /\ pc' = "loop"
          /\ idx' = idx + 1
          /\ UNCHANGED <<produced, delivered, backend_errors, exit_kind>>
       \/ /\ backend_errors' = backend_errors \cup {idx}
          /\ pc' = FtsErrorPc
          /\ IF FtsErrorPc = "loop"
             THEN idx' = idx + 1 /\ exit_kind' = exit_kind
             ELSE idx' = idx /\ exit_kind' = "error"
          /\ UNCHANGED <<produced, delivered>>
    \* the generator body runs up to its first yield on the first next()
    /\ backend_calls' = IF produced = 0 THEN Append(backend_calls, SparseSystematicCall)
                        ELSE backend_calls
    /\ UNCHANGED <<mode, compVars, request, content_fetcher,
                   execVars, count, dense_pending,
                   audit, invoked, outcome>>

\* hits = await to_thread.run_sync(self.dense_retriever.retrieve, request)
DenseRetrieve ==
    /\ mode = "systematic" /\ pc = "dense_retrieve"
    /\ \E o \in RetrieveOutcomes :
          IF o.status = "raised"
          THEN /\ backend_errors' = backend_errors \cup {idx}
               /\ exit_kind' = "error"
               /\ pc' = "finally"
               /\ UNCHANGED dense_pending
          ELSE /\ dense_pending' = o.hits
               /\ pc' = "dense_iter"
               /\ UNCHANGED <<backend_errors, exit_kind>>
    /\ backend_calls' = Append(backend_calls, DenseCall(request))
    /\ UNCHANGED <<mode, compVars, request, content_fetcher, idx,
                   execVars, count, delivered,
                   produced, audit, invoked, outcome>>

\* for hit in hits: yield hit
DenseIterate ==
    /\ mode = "systematic" /\ pc = "dense_iter"
    /\ IF dense_pending = <<>>
       THEN /\ idx' = idx + 1
            /\ pc' = "loop"
            /\ UNCHANGED delivered
       ELSE /\ delivered' = delivered + 1
            /\ pc' = "yield_dense"
            /\ UNCHANGED idx
    /\ UNCHANGED <<mode, compVars, backend_calls, request, content_fetcher,
                   execVars, count, produced,
                   dense_pending, exit_kind, audit, backend_errors, invoked, outcome>>

\* How the generator ends for the consumer once the finally block has run.
StreamOutcome(kind, ok) ==
    IF ~ok THEN "raised"
    ELSE CASE kind = "normal" -> "exhausted"
           [] kind = "closed" -> "closed"
           [] OTHER -> "raised"

\* finally: log_audit("SYSTEMATIC_SEARCH_COMPLETE", {"total_found": count})
Finally ==
    /\ mode = "systematic" /\ pc = "finally"
    /\ \E ok \in BOOLEAN :
          /\ audit' = LogAudit(audit, "SYSTEMATIC_SEARCH_COMPLETE", CompleteData(count), ok)
          /\ outcome' = StreamOutcome(exit_kind, ok)
    /\ pc' = "done"
    /\ UNCHANGED <<mode, compVars, backend_calls, request, content_fetcher, idx,
                   execVars, count, delivered,
                   produced, dense_pending, exit_kind, backend_errors, invoked>>

Next ==
    \/ ConsumerPull
    \/ ConsumerClose
    \/ SystematicStart
    \/ StrategyLoop
    \/ FtsNext
    \/ DenseRetrieve
    \/ DenseIterate
    \/ Finally
    \/ DispatchRetrieval
    \/ RetrievalReturns
    \/ Fusion
    \/ ReRanking
    \/ ScoutAndRespond

Spec == Init /\ [][Next]_vars

\* ------------------------------------------- execute over wide result lists
\* A retrieved hit with stored text, one per document number.
WideHit(i) ==
    [doc_id |-> ToString(i), content |-> Some(TextShort),
     original_text |-> Some(TextShort), distilled_text |-> <<>>,
     score |-> (ScoreUnit \div 10) * 9, source_pointer |-> "None"]

WideList(n) == [i \in 1..n |-> WideHit(i)]

\* Lengths around the window size.
WideLens == (RerankWindow - 1)..MaxWide

WideRequest ==
    [query : Queries,
     strategies : {<<"lance_dense">>},
     fusion_enabled : BOOLEAN,
     rerank_enabled : BOOLEAN,
     distill_enabled : BOOLEAN,
     top_k : {1} \cup WideLens,
     user_context : {"None"}]

\* execute at the end of its retrieval loop, the one strategy of the request
\* having returned a list of WideLens documents.
WideInit ==
    /\ mode = "execute"
    /\ request \in WideRequest
    /\ content_fetcher = "none"
    /\ pc = "fusion"
    /\ idx = 2
    /\ inflight = {}
    /\ peak_inflight = 1
    /\ \E n \in WideLens :
          /\ all_hits = <<WideList(n)>>
          /\ contributed = <<[status |-> "returned", hits |-> WideList(n)]>>
    /\ fused_hits = <<>>
    /\ reranked_hits = <<>>
    /\ distill_calls = <<>>
    /\ error_source = "none"
    /\ response = NoResponse
    /\ count = 0
    /\ delivered = 0
    /\ produced = 0
    /\ dense_pending = <<>>
    /\ exit_kind = "none"
    /\ audit = <<>>
    /\ backend_errors = {}
    /\ invoked = {}
    /\ outcome = "none"
    /\ backend_calls = <<>>
    /\ fusion_k = RrfK
    /\ threshold = Threshold
    /\ returned = <<>>
    /\ table = <<>>
    /\ graph = EmptyGraph
    /\ cursor = 0
    /\ stream = <<>>
    /\ db_manager = NoManager
    /\ engines = <<>>
    /\ databases = <<>>
    /\ found = <<>>

WideNext ==
    \/ Fusion
    \/ ReRanking
    \/ ScoutAndRespond

WideSpec == WideInit /\ [][WideNext]_vars

\* ------------------------------------------------------------- properties
IsStart(i) == audit[i].event = "SYSTEMATIC_SEARCH_START"
IsComplete(i) == audit[i].event = "SYSTEMATIC_SEARCH_COMPLETE"

\* The START call was made and the sink accepted it.
StartSucceeded == audit # <<>> /\ IsStart(1) /\ audit[1].ok

\* The positions of the COMPLETE calls in the audit log.
CompleteCalls == {i \in 1..Len(audit) : IsComplete(i)}

Finished == mode = "systematic" /\ pc = "done"

\* C1 (as stated): once START has succeeded, a finished stream has exactly one
\* COMPLETE call, made after START, whose total_found is the number of hits
\* handed to the consumer, however the stream ended.
C1_TotalIsHanded ==
    (Finished /\ StartSucceeded) =>
        /\ Cardinality(CompleteCalls) = 1
        /\ \A i \in CompleteCalls : i > 1 /\ audit[i].data.total_found = delivered

\* C1 (amended): once START has succeeded, a finished stream has exactly one
\* COMPLETE call, made after START and only when the stream ends; its
\* total_found is the number of hits handed to the consumer when the stream
\* ended normally or on an error, and one less when the consumer closed it.
C1_Bracketed ==
    /\ Cardinality(CompleteCalls) <= 1
    /\ (CompleteCalls # {}) => (Finished /\ StartSucceeded)
    /\ (Finished /\ StartSucceeded) =>
          /\ Cardinality(CompleteCalls) = 1
          /\ \A i \in CompleteCalls :
                /\ i > 1
                /\ audit[i].data.total_found =
                      IF exit_kind = "closed" THEN delivered - 1 ELSE delivered

C1_Witness ==
    /\ Finished /\ StartSucceeded
    /\ exit_kind = "normal" /\ delivered >= 1 /\ CompleteCalls # {}

\* C2: a consumer that pulled N >= 1 hits and then closed the stream finds
\* exactly one COMPLETE call, with total_found = N - 1.
C2_CloseCountsOneLess ==
    (Finished /\ exit_kind = "closed") =>
        /\ delivered >= 1
        /\ Cardinality(CompleteCalls) = 1
        /\ \A i \in CompleteCalls : audit[i].data.total_found = delivered - 1

C2_Witness ==
    /\ Finished /\ exit_kind = "closed" /\ delivered >= 2
    /\ CompleteCalls # {}

\* The non-empty lists of the strategies that returned, in request order.
RECURSIVE Contributions(_)
Contributions(results) ==
    IF results = <<>> THEN <<>>
    ELSE LET r == Head(results)
         IN (IF r.status = "returned" /\ r.hits # <<>> THEN <<r.hits>> ELSE <<>>)
                \o Contributions(Tail(results))

SomeRaised == \E i \in DOMAIN contributed : contributed[i].status = "raised"
AllRaised == \A i \in DOMAIN contributed : contributed[i].status = "raised"

ExecuteEnded == mode = "execute" /\ pc \in {"done", "raised"}

\* C3: a strategy that raises never aborts execute; the candidates are exactly
\* the lists of the strategies that did not raise, and when every strategy
\* raised the response is returned with no hits, total_found 0 and the
\* provenance hash over the empty id list.
C3_StrategyIsolation ==
    /\ error_source # "retriever"
    /\ (mode = "execute" /\ pc # "retrieve") => all_hits = Contributions(contributed)
    /\ (mode = "execute" /\ pc = "done") =>
          /\ response.status = "returned"
          /\ \A i \in 1..Len(response.hits) :
                \E j \in 1..Len(Flatten(all_hits)) :
                    Flatten(all_hits)[j].doc_id = response.hits[i].doc_id
    /\ (ExecuteEnded /\ AllRaised) =>
          /\ pc = "done"
          /\ response.hits = <<>>
          /\ response.total_found = 0
          /\ response.provenance_hash = Sha256(request.query \o <<"[", "]">>)

C3_Witness ==
    /\ mode = "execute" /\ pc = "done"
    /\ SomeRaised /\ ~AllRaised
    /\ contributed[1].status = "raised"
    /\ response.hits # <<>>

\* C4: in an execute call with two or more strategies the retrievals are
\* dispatched concurrently: by the time the retrieval phase is over, a later
\* strategy has been in flight together with an earlier one.
C4_ConcurrentDispatch ==
    (mode = "execute" /\ pc # "retrieve" /\ Len(request.strategies) >= 2) =>
        peak_inflight >= 2

ResponseReturned == mode = "execute" /\ pc = "done"

\* C5: when distillation runs, execute hands the request's user_context to
\* Scout.distill, so a fetcher that serves only the authorised context yields
\* a non-empty distilled_text for that context.
C5_ContextForwarded ==
    (ResponseReturned /\ request.distill_enabled /\ reranked_hits # <<>>) =>
        /\ distill_calls = <<request.user_context>>
        /\ (content_fetcher = "secure" /\ request.user_context = "valid") =>
              \A i \in 1..Len(response.hits) :
                  response.hits[i].source_pointer = "secret" =>
                      response.hits[i].distilled_text # <<>>

DefaultFlags ==
    request.fusion_enabled /\ request.rerank_enabled /\ request.distill_enabled

IsPointerHit(h) ==
    h.original_text = None /\ h.content = None /\ h.source_pointer # "None"

\* C6: with default flags, pointer hits (no text, a source_pointer) and a
\* fetcher that returns text, execute returns a response whose pointer hits
\* carry the text distilled from the fetched content and still have no
\* original_text and no content.
C6_EphemeralContent ==
    (/\ ExecuteEnded /\ DefaultFlags /\ content_fetcher = "open"
     /\ \E j \in 1..Len(Flatten(all_hits)) : IsPointerHit(Flatten(all_hits)[j])) =>
        /\ pc = "done"
        /\ \A i \in 1..Len(response.hits) :
              response.hits[i].source_pointer # "None" =>
                  /\ response.hits[i].distilled_text =
                        JoinSpace(SelectSeq(Segment(TextFetched),
                            LAMBDA seg : ScoreUnitOf(seg, QueryTerms(request.query)) > 0))
                  /\ response.hits[i].distilled_text # <<>>
                  /\ response.hits[i].original_text = None
                  /\ response.hits[i].content = None

StartFailed == audit # <<>> /\ IsStart(1) /\ ~audit[1].ok

\* C7: when the sink raises on START, the error reaches the consumer on the
\* first pull: the stream is over, nothing was yielded, no retriever ran and
\* no further audit call was made.
C7_StartFailurePropagates ==
    StartFailed =>
        /\ pc = "done"
        /\ outcome = "raised"
        /\ delivered = 0 /\ count = 0
        /\ invoked = {}
        /\ Len(audit) = 1

C7_Witness == mode = "systematic" /\ StartFailed /\ outcome = "raised"

\* C8: a backend error in a strategy of execute_systematic ends the stream: the
\* try block is left at once, no later strategy is run, and the consumer gets
\* the error after the COMPLETE call.
C8_BackendErrorPropagates ==
    (mode = "systematic" /\ backend_errors # {}) =>
        /\ pc \in {"finally", "done"}
        /\ \A e \in backend_errors : \A j \in invoked : j <= e
        /\ pc = "done" =>
              /\ outcome = "raised"
              /\ IsComplete(Len(audit))

HasDuplicateIds(hits) ==
    \E i, j \in 1..Len(hits) : i < j /\ hits[i].doc_id = hits[j].doc_id

\* C9: no doc_id occurs twice in response.hits, with or without fusion.
C9_NoDuplicateIds ==
    ResponseReturned => ~HasDuplicateIds(response.hits)

C9_Witness ==
    /\ ResponseReturned
    /\ ~request.fusion_enabled
    /\ HasDuplicateIds(Flatten(all_hits))
    /\ response.hits # <<>>

FilteredRequest ==
    [query : Queries,
     strategies : {<<t>> : t \in RetrieverType},
     fusion_enabled : BOOLEAN,
     rerank_enabled : BOOLEAN,
     distill_enabled : {FALSE},
     top_k : 1..MaxTopK,
     user_context : {"None"},
     filters : FilterPool]

\* The retriever the engine calls for a strategy, and what it reads.
Retrieve(strategy, req, rows, g) ==
    CASE strategy = "lance_dense" -> DenseRetrieverRetrieve(req, rows)
      [] strategy = "lance_fts" -> SparseRetrieverRetrieve(req, rows)
      [] OTHER -> GraphRetrieverRetrieve(req, g)

\* The backend request a retriever's retrieve makes (the graph client is not
\* the search backend).
RetrieveCalls(strategy, req) ==
    CASE strategy = "lance_dense" ->
            <<[op |-> "vector", limit |-> RetrieveLimit(req), offset |-> 0]>>
      [] strategy = "lance_fts" ->
            <<[op |-> "fts", limit |-> RetrieveLimit(req), offset |-> 0]>>
      [] OTHER -> <<>>

RetrieverInit ==
    /\ mode = "execute"
    /\ request \in FilteredRequest
    /\ content_fetcher = "none"
    /\ pc = "retrieve"
    /\ idx = 1
    /\ inflight = {}
    /\ peak_inflight = 0
    /\ all_hits = <<>>
    /\ contributed = <<Pending>>
    /\ fused_hits = <<>>
    /\ reranked_hits = <<>>
    /\ distill_calls = <<>>
    /\ error_source = "none"
    /\ response = NoResponse
    /\ count = 0
    /\ delivered = 0
    /\ produced = 0
    /\ dense_pending = <<>>
    /\ exit_kind = "none"
    /\ audit = <<>>
    /\ backend_errors = {}
    /\ invoked = {}
    /\ outcome = "none"
    /\ backend_calls = <<>>
    /\ fusion_k = RrfK
    /\ threshold = Threshold
    /\ returned = <<>>
    /\ cursor = 0
    /\ stream = <<>>
    /\ db_manager = NoManager
    /\ engines = <<>>
    /\ databases = <<>>
    /\ found = <<>>
    /\ IF request.strategies[1] = "graph_neighbor"
       THEN table = <<>> /\ graph \in Graphs
       ELSE table \in Tables /\ graph = EmptyGraph

\* hits = await to_thread.run_sync(self.<retriever>.retrieve, request), the
\* retriever's code run against the backend.
RetrieverReturns ==
    /\ mode = "execute" /\ pc = "retrieve"
    /\ \E i \in inflight :
          LET result == [status |-> "returned",
                         hits |-> Retrieve(request.strategies[i], request, table, graph)]
          IN /\ inflight' = inflight \ {i}
             /\ contributed' = [contributed EXCEPT ![i] = result]
             /\ all_hits' = Collect(all_hits, result)
             /\ idx' = idx + 1
             /\ pc' = AfterRetrieval(result, idx + 1 > Len(request.strategies))
             /\ backend_calls' = backend_calls \o RetrieveCalls(request.strategies[i], request)
    /\ UNCHANGED <<count, delivered, produced, dense_pending, exit_kind, audit,
                   backend_errors, invoked, outcome>>
    /\ UNCHANGED <<mode, compVars, request, content_fetcher, peak_inflight, fused_hits,
                   reranked_hits, distill_calls, error_source, response>>

RetrieverNext ==
    \/ DispatchRetrieval
    \/ RetrieverReturns
    \/ Fusion
    \/ ReRanking
    \/ ScoutAndRespond

RetrieverSpec == RetrieverInit /\ [][RetrieverNext]_vars

\* --------------------------------------- execute over strategy-scored hits
\* The score a strategy's retriever gives a hit, in tenths: the same document
\* comes back from different strategies with different scores.
StrategyTenths(strategy) ==
    CASE strategy = "lance_dense" -> 9
      [] strategy = "lance_fts" -> 7
      [] OTHER -> 10

StrategyHit(strategy, id) ==
    [HitText EXCEPT !.doc_id = id, !.score = (ScoreUnit \div 10) * StrategyTenths(strategy)]

\* What a strategy's retrieve can return: a list of its hits, or it raises.
StrategyOutcomes(strategy) ==
    {[status |-> "returned", hits |-> [i \in 1..Len(ids) |-> StrategyHit(strategy, ids[i])]] :
        ids \in SeqsUpTo({"d1", "d2"}, MaxHits)}
        \cup {[status |-> "raised", hits |-> <<>>]}

MergeRequest ==
    {r \in SearchRequest :
        ~r.rerank_enabled /\ ~r.distill_enabled
        /\ r.top_k = MaxTopK /\ r.user_context = "None"}

MergeInit ==
    /\ mode = "execute"
    /\ request \in MergeRequest
    /\ content_fetcher = "none"
    /\ pc = "retrieve"
    /\ idx = 1
    /\ inflight = {}
    /\ peak_inflight = 0
    /\ all_hits = <<>>
    /\ contributed = [i \in 1..Len(request.strategies) |-> Pending]
    /\ fused_hits = <<>>
    /\ reranked_hits = <<>>
    /\ distill_calls = <<>>
    /\ error_source = "none"
    /\ response = NoResponse
    /\ count = 0
    /\ delivered = 0
    /\ produced = 0
    /\ dense_pending = <<>>
    /\ exit_kind = "none"
    /\ audit = <<>>
    /\ backend_errors = {}
    /\ invoked = {}
    /\ outcome = "none"
    /\ backend_calls = <<>>
    /\ fusion_k = RrfK
    /\ threshold = Threshold
    /\ returned = <<>>
    /\ table = <<>>
    /\ graph = EmptyGraph
    /\ cursor = 0
    /\ stream = <<>>
    /\ db_manager = NoManager
    /\ engines = <<>>
    /\ databases = <<>>
    /\ found = <<>>

\* hits = await to_thread.run_sync(self.<retriever>.retrieve, request), with
\* hits scored by the strategy that returns them.
MergeReturns ==
    /\ mode = "execute" /\ pc = "retrieve"
    /\ \E i \in inflight :
          \E result \in StrategyOutcomes(request.strategies[i]) :
             /\ inflight' = inflight \ {i}
             /\ contributed' = [contributed EXCEPT ![i] = result]
             /\ all_hits' = Collect(all_hits, result)
             /\ idx' = idx + 1
             /\ pc' = AfterRetrieval(result, idx + 1 > Len(request.strategies))
    /\ UNCHANGED sysVars
    /\ UNCHANGED <<mode, compVars, request, content_fetcher, peak_inflight, fused_hits,
                   reranked_hits, distill_calls, error_source, response>>

MergeNext ==
    \/ DispatchRetrieval
    \/ MergeReturns
    \/ Fusion
    \/ ReRanking
    \/ ScoutAndRespond

MergeSpec == MergeInit /\ [][MergeNext]_vars

\* ------------------------------------- SearchEngine.execute_systematic
\* The synchronous facade over the async stream: _collect() is its only
\* consumer, an `async for` that asks for the next hit until the stream ends.
FacadeInit == Init /\ mode = "systematic"

\* A facade that hands the iterator over as soon as the first hit is there.
CollectHandsOver(position, ending) ==
    \/ position \in {"yield_fts", "yield_dense"}
    \/ position = "done" /\ ending = "exhausted"

\* anyio.run(_collect) returns once the `async for` has run the stream to its
\* end.
CollectEnds(position, ending) == position = "done" /\ ending = "exhausted"

\* return iter(anyio.run(_collect)): the caller gets an iterator over the list
\* of the hits collected.
FacadeReturns ==
    /\ mode = "systematic" /\ CollectEnds(pc, outcome)
    /\ returned' = <<delivered>>
    /\ pc' = "returned"
    /\ UNCHANGED <<fusion_k, table, graph, cursor, stream, ctorVars, threshold>>
    /\ UNCHANGED <<mode, request, content_fetcher, idx, execVars, sysVars>>

\* An exception that leaves the stream leaves _collect, anyio.run and the
\* facade: the caller gets no iterator.
FacadeRaises ==
    /\ mode = "systematic" /\ pc = "done" /\ outcome = "raised"
    /\ pc' = "raised"
    /\ UNCHANGED <<mode, request, content_fetcher, idx, execVars, sysVars, compVars>>

\* next() on the iterator the facade returned.
CallerNext ==
    /\ mode = "systematic" /\ pc = "returned"
    /\ cursor < returned[1]
    /\ cursor' = cursor + 1
    /\ UNCHANGED <<fusion_k, table, graph, stream, ctorVars, unitVars>>
    /\ UNCHANGED <<mode, request, content_fetcher, pc, idx, execVars, sysVars>>

FacadeNext ==
    \/ ConsumerPull
    \/ SystematicStart
    \/ StrategyLoop
    \/ FtsNext
    \/ DenseRetrieve
    \/ DenseIterate
    \/ Finally
    \/ FacadeReturns
    \/ FacadeRaises
    \/ CallerNext

FacadeSpec == FacadeInit /\ [][FacadeNext]_vars

\* ------------------------------------------- SparseRetriever.retrieve
QueryAlphabet == {"a", "T", "i", " ", "[", "]", "\""}

\* 'a T[Ti]' and '"a T"[ab]': a tagged token after an untagged one, and a
\* quoted phrase with a tag.
ExampleQueries == {<<"a", " ", "T", "[", "T", "i", "]">>, <<"\"", "a", " ", "T", "\"", "[", "a", "b", "]">>}

RawQueries == SeqsUpTo(QueryAlphabet, MaxQueryLen) \cup ExampleQueries

QueryRequest ==
    [query : RawQueries,
     strategies : {<<"lance_fts">>},
     fusion_enabled : {TRUE},
     rerank_enabled : {TRUE},
     distill_enabled : {TRUE},
     top_k : {MaxTopK},
     user_context : {"None"},
     filters : {NoFilters}]

QueryInit ==
    /\ mode = "sparse_retrieve"
    /\ request \in QueryRequest
    /\ pc = "created"
    /\ content_fetcher = "none"
    /\ idx = 1
    /\ inflight = {}
    /\ peak_inflight = 0
    /\ all_hits = <<>>
    /\ contributed = <<Pending>>
    /\ fused_hits = <<>>
    /\ reranked_hits = <<>>
    /\ distill_calls = <<>>
    /\ error_source = "none"
    /\ response = NoResponse
    /\ count = 0
    /\ delivered = 0
    /\ produced = 0
    /\ dense_pending = <<>>
    /\ exit_kind = "none"
    /\ audit = <<>>
    /\ backend_errors = {}
    /\ invoked = {}
    /\ outcome = "none"
    /\ backend_calls = <<>>
    /\ fusion_k = RrfK
    /\ threshold = Threshold
    /\ returned = <<>>
    /\ table = <<>>
    /\ graph = EmptyGraph
    /\ cursor = 0
    /\ stream = <<>>
    /\ db_manager = NoManager
    /\ engines = <<>>
    /\ databases = <<>>
    /\ found = <<>>

\* _prepare_query for a str query: str(query), the query as it is.
PrepareQuery(query) == query

\* self.table.search(query_str, query_type="fts").limit(limit).to_list()
SparseSearchCall(req) ==
    [op |-> "fts", query |-> PrepareQuery(req.query),
     limit |-> RetrieveLimit(req), offset |-> 0]

\* SparseRetriever.retrieve(request)
SparseRetrieve ==
    /\ mode = "sparse_retrieve" /\ pc = "created"
    /\ backend_calls' = Append(backend_calls, SparseSearchCall(request))
    /\ all_hits' = <<SparseRetrieverRetrieve(request, table)>>
    /\ pc' = "returned"
    /\ UNCHANGED <<count, delivered, produced, dense_pending, exit_kind, audit,
                   backend_errors, invoked, outcome>>
    /\ UNCHANGED <<mode, compVars, request, content_fetcher, idx, inflight, peak_inflight,
                   contributed, fused_hits, reranked_hits, distill_calls, error_source,
                   response>>

QueryNext == SparseRetrieve

QuerySpec == QueryInit /\ [][QueryNext]_vars

\* ------------------------------------------- matches_filters on its own
\* {"val": 5}
FilterVal5 == <<Field(<<"val">>, VInt(5))>>

\* {"nested": {"key": "value"}}
FilterNested == <<Field(<<"nested">>, Ops(<<[op |-> "key", target |-> VStr("value")]>>))>>

LogicalEntry(key, operand) == [key |-> key, path |-> <<>>, operand |-> operand]

\* {"$not": {"val": 5}}
FilterNot5 == <<LogicalEntry("$not", VDict(FilterVal5))>>

SubPredicates == {FilterVal5, FilterGt10, FilterNot5}

\* What stands under "$or" or "$and": a list of sub-predicates, or a string.
ConditionOperands ==
    {VList(conds) : conds \in SeqsUpTo(SubPredicates, MaxConditions)}
        \cup {VStr("not-a-list")}

\* A key of the node is there or not.
Optional(entries) == {<<e>> : e \in entries} \cup {<<>>}

\* The filter nodes: any of an $or, an $and, a $not and a field entry.
FilterNodes ==
    {or \o and \o not \o field :
        or \in Optional({LogicalEntry("$or", c) : c \in ConditionOperands}),
        and \in Optional({LogicalEntry("$and", c) : c \in ConditionOperands}),
        not \in Optional({LogicalEntry("$not", VDict(sub)) :
                              sub \in {FilterVal5, FilterGt10, FilterNested}}),
        field \in {FilterVal5, FilterGt10, FilterNested, <<>>}}

MatchMetadataTexts ==
    MetadataTexts
        \cup {JsonText([nested |-> VDict([key |-> VStr("value")])]),
              JsonText([nested |-> VDict([key |-> VStr("other")]), val |-> VInt(5)])}

MatchTables == {<<Row(1, text)>> : text \in MatchMetadataTexts}

MatchRequest ==
    [query : Queries,
     strategies : {<<"lance_fts">>},
     fusion_enabled : {TRUE},
     rerank_enabled : {TRUE},
     distill_enabled : {TRUE},
     top_k : {MaxTopK},
     user_context : {"None"},
     filters : FilterNodes]

MatchInit ==
    /\ mode = "match"
    /\ request \in MatchRequest
    /\ pc = "created"
    /\ content_fetcher = "none"
    /\ idx = 1
    /\ inflight = {}
    /\ peak_inflight = 0
    /\ all_hits = <<>>
    /\ contributed = <<Pending>>
    /\ fused_hits = <<>>
    /\ reranked_hits = <<>>
    /\ distill_calls = <<>>
    /\ error_source = "none"
    /\ response = NoResponse
    /\ count = 0
    /\ delivered = 0
    /\ produced = 0
    /\ dense_pending = <<>>
    /\ exit_kind = "none"
    /\ audit = <<>>
    /\ backend_errors = {}
    /\ invoked = {}
    /\ outcome = "none"
    /\ backend_calls = <<>>
    /\ fusion_k = RrfK
    /\ threshold = Threshold
    /\ returned = <<>>
    /\ table \in MatchTables
    /\ graph = EmptyGraph
    /\ cursor = 0
    /\ stream = <<>>
    /\ db_manager = NoManager
    /\ engines = <<>>
    /\ databases = <<>>
    /\ found = <<>>

\* matches_filters(hit.metadata, request.filters) for the hit of the row.
MatchCall ==
    /\ mode = "match" /\ pc = "created"
    /\ returned' = <<MatchesFilters(MapSingleResult(table[1]).metadata, request.filters)>>
    /\ pc' = "returned"
    /\ UNCHANGED <<fusion_k, table, graph, cursor, stream, ctorVars, threshold>>
    /\ UNCHANGED <<mode, request, content_fetcher, idx, execVars, sysVars>>

MatchNext == MatchCall

MatchSpec == MatchInit /\ [][MatchNext]_vars

\* ------------------------------------------------- distill on its own
ScoutTexts == SeqsUpTo({"A", "b", ".", " "}, MaxTextLen)

ScoutQueries == SeqsUpTo({"a", "B", " "}, MaxTermsLen)

\* ScoutConfig.threshold is any number from 0.0 to 1.0: the default and the
\* largest.
Thresholds == {Threshold, ScoreUnit}

ScoutHit(id, text) ==
    [HitText EXCEPT !.doc_id = id, !.content = Some(text), !.original_text = Some(text)]

\* One hit, or the hit followed by a second one.
ScoutHitLists ==
    {<<ScoutHit("d1", text)>> : text \in ScoutTexts}
        \cup {<<ScoutHit("d1", text), ScoutHit("d2", TextShort)>> : text \in ScoutTexts}

ScoutRequest ==
    [query : ScoutQueries,
     strategies : {<<"lance_fts">>},
     fusion_enabled : {TRUE},
     rerank_enabled : {TRUE},
     distill_enabled : {TRUE},
     top_k : {MaxTopK},
     user_context : {"None"},
     filters : {NoFilters}]

ScoutInit ==
    /\ mode = "distill"
    /\ request \in ScoutRequest
    /\ pc = "created"
    /\ content_fetcher = "none"
    /\ idx = 1
    /\ inflight = {}
    /\ peak_inflight = 0
    /\ all_hits = <<>>
    /\ contributed = <<Pending>>
    /\ fused_hits = <<>>
    /\ reranked_hits \in ScoutHitLists
    /\ distill_calls = <<>>
    /\ error_source = "none"
    /\ response = NoResponse
    /\ count = 0
    /\ delivered = 0
    /\ produced = 0
    /\ dense_pending = <<>>
    /\ exit_kind = "none"
    /\ audit = <<>>
    /\ backend_errors = {}
    /\ invoked = {}
    /\ outcome = "none"
    /\ backend_calls = <<>>
    /\ fusion_k = RrfK
    /\ threshold \in Thresholds
    /\ returned = <<>>
    /\ table = <<>>
    /\ graph = EmptyGraph
    /\ cursor = 0
    /\ stream = <<>>
    /\ db_manager = NoManager
    /\ engines = <<>>
    /\ databases = <<>>
    /\ found = <<>>

\* self.scout.distill(request.query, reranked_hits)
ScoutDistill ==
    /\ mode = "distill" /\ pc = "created"
    /\ returned' = DistillAt(threshold, content_fetcher, request.query, reranked_hits,
                             request.user_context)
    /\ pc' = "returned"
    /\ UNCHANGED <<fusion_k, table, graph, cursor, stream, ctorVars, threshold>>
    /\ UNCHANGED <<mode, request, content_fetcher, idx, execVars, sysVars>>

ScoutNext == ScoutDistill

ScoutSpec == ScoutInit /\ [][ScoutNext]_vars

\* ------------------------------------ SparseRetriever.retrieve_systematic
\* A table of n rows with the same metadata.
BigTable(n) == [i \in 1..n |-> Row(i, JsonText([val |-> VInt(15)]))]

StreamRequest ==
    [query : Queries,
     strategies : {<<"lance_fts">>},
     fusion_enabled : {TRUE},
     rerank_enabled : {TRUE},
     distill_enabled : {TRUE},
     top_k : {MaxTopK},
     user_context : {"None"},
     filters : FilterPool]

\* The small tables under every filter, and unfiltered a table of n rows.
StreamSetups(n) ==
    (StreamRequest \X Tables)
        \cup ({r \in StreamRequest : r.filters = NoFilters} \X {BigTable(n)})

SparseInit ==
    /\ mode = "retrieve_systematic"
    \* the large table has one row more than the limit of the systematic request
    /\ \E setup \in StreamSetups(SparseSystematicCall.limit + 1) :
          request = setup[1] /\ table = setup[2]
    /\ pc = "created"
    /\ content_fetcher = "none"
    /\ idx = 1
    /\ inflight = {}
    /\ peak_inflight = 0
    /\ all_hits = <<>>
    /\ contributed = <<Pending>>
    /\ fused_hits = <<>>
    /\ reranked_hits = <<>>
    /\ distill_calls = <<>>
    /\ error_source = "none"
    /\ response = NoResponse
    /\ count = 0
    /\ delivered = 0
    /\ produced = 0
    /\ dense_pending = <<>>
    /\ exit_kind = "none"
    /\ audit = <<>>
    /\ backend_errors = {}
    /\ invoked = {}
    /\ outcome = "none"
    /\ backend_calls = <<>>
    /\ fusion_k = RrfK
    /\ threshold = Threshold
    /\ returned = <<>>
    /\ graph = EmptyGraph
    /\ cursor = 0
    /\ stream = <<>>
    /\ db_manager = NoManager
    /\ engines = <<>>
    /\ databases = <<>>
    /\ found = <<>>

\* arrow_table: what the one request of the generator returns.
ArrowTable(rows) == Take(rows, SparseSystematicCall.limit)

\* The row passes `if request.filters: if matches_filters(...)`.
Yields(req, item) ==
    req.filters = NoFilters \/ MatchesFilters(MapSingleResult(item).metadata, req.filters)

\* The first position after `from` whose row the generator yields, 0 if none.
NextYield(req, results, from) ==
    LET ahead == (from + 1)..Len(results)
    IN IF \E j \in ahead : Yields(req, results[j])
       THEN CHOOSE j \in ahead :
                /\ Yields(req, results[j])
                /\ \A i \in (from + 1)..(j - 1) : ~Yields(req, results[i])
       ELSE 0

\* The request is made when the generator body starts, on the first next().
CallsAfterNext(calls, position) ==
    IF position = "created" THEN Append(calls, SparseSystematicCall) ELSE calls

\* The retriever has no get_table_version: snapshot_id is -1.
NoVersion == [raised |-> TRUE, version |-> 0]

\* The START audit, logged when the async generator is first driven.
AuditAfterStart(log, position, req) ==
    IF position = "created"
    THEN LogAudit(log, "SYSTEMATIC_SEARCH_START", StartData(req, NoVersion), TRUE)
    ELSE log

\* count += 1 runs when the generator is resumed from `yield hit`.
CountOnResume(c, position) ==
    IF position = "suspended" THEN CountAfterResume(c) ELSE c

\* One anext() of execute_systematic with the one strategy lance_fts: the
\* sparse generator runs to its next yield, or to its end and the finally
\* block. The consumer steps through at most MaxRows + 1 hits.
SparseNext ==
    /\ mode = "retrieve_systematic" /\ pc \in {"created", "suspended"}
    /\ Len(stream) <= MaxRows
    /\ backend_calls' = CallsAfterNext(backend_calls, pc)
    /\ count' = CountOnResume(count, pc)
    /\ LET arrow_table == ArrowTable(table)
           j == NextYield(request, arrow_table, cursor)
           started == AuditAfterStart(audit, pc, request)
       IN IF j = 0
          THEN /\ cursor' = Len(arrow_table)
               /\ pc' = "exhausted"
               /\ audit' = LogAudit(started, "SYSTEMATIC_SEARCH_COMPLETE",
                                     CompleteData(count'), TRUE)
               /\ UNCHANGED stream
          ELSE /\ cursor' = j
               /\ stream' = Append(stream, MapSingleResult(arrow_table[j]))
               /\ pc' = "suspended"
               /\ audit' = started
    /\ UNCHANGED <<mode, request, content_fetcher, idx, execVars, fusion_k, table, graph,
                   ctorVars, unitVars>>
    /\ UNCHANGED <<delivered, produced, dense_pending, exit_kind,
                   backend_errors, invoked, outcome>>

\* SearchEngine.execute_systematic's _collect(): `async for` to the end of the
\* stream, from wherever the generator is.
SparseCollect ==
    /\ mode = "retrieve_systematic" /\ pc \in {"created", "suspended"}
    /\ backend_calls' = CallsAfterNext(backend_calls, pc)
    /\ LET arrow_table == ArrowTable(table)
           rest == SubSeq(arrow_table, cursor + 1, Len(arrow_table))
           hits == MapSeq(MapSingleResult,
                          SelectSeq(rest, LAMBDA item : Yields(request, item)))
       IN /\ stream' = stream \o hits
          /\ cursor' = Len(arrow_table)
          /\ count' = CountOnResume(count, pc) + Len(hits)
          /\ audit' = LogAudit(AuditAfterStart(audit, pc, request),
                                "SYSTEMATIC_SEARCH_COMPLETE", CompleteData(count'), TRUE)
    /\ pc' = "exhausted"
    /\ UNCHANGED <<mode, request, content_fetcher, idx, execVars, fusion_k, table, graph,
                   ctorVars, unitVars>>
    /\ UNCHANGED <<delivered, produced, dense_pending, exit_kind,
                   backend_errors, invoked, outcome>>

SparseStreamNext ==
    \/ SparseNext
    \/ SparseCollect

SparseSpec == SparseInit /\ [][SparseStreamNext]_vars

\* ------------------------------------------------ SearchEngine.__init__
NewEngine(uri) ==
    [config_uri |-> uri, stage |-> "new", db_manager |-> NoManager,
     dense_retriever |-> NoRetriever, sparse_retriever |-> NoRetriever]

ConstructInit ==
    /\ mode = "construct"
    /\ db_manager \in {NoManager} \cup {LanceDBManager(u) : u \in DatabaseUris}
    /\ \E uris \in [EngineIds -> DatabaseUris] :
          engines = [e \in EngineIds |-> NewEngine(uris[e])]
    /\ databases = [u \in DatabaseUris \cup {DefaultUri} |-> {}]
    /\ found = [e \in EngineIds |-> None]
    /\ request \in {r \in StreamRequest : r.filters = NoFilters}
    /\ pc = "idle"
    /\ content_fetcher = "none"
    /\ idx = 1
    /\ inflight = {}
    /\ peak_inflight = 0
    /\ all_hits = <<>>
    /\ contributed = <<Pending>>
    /\ fused_hits = <<>>
    /\ reranked_hits = <<>>
    /\ distill_calls = <<>>
    /\ error_source = "none"
    /\ response = NoResponse
    /\ count = 0
    /\ delivered = 0
    /\ produced = 0
    /\ dense_pending = <<>>
    /\ exit_kind = "none"
    /\ audit = <<>>
    /\ backend_errors = {}
    /\ invoked = {}
    /\ outcome = "none"
    /\ backend_calls = <<>>
    /\ fusion_k = RrfK
    /\ threshold = Threshold
    /\ returned = <<>>
    /\ table = <<>>
    /\ graph = EmptyGraph
    /\ cursor = 0
    /\ stream = <<>>

Built(e) == engines[e].stage = "built"

\* Engines are constructed one after the other: a constructor runs from its
\* first statement to its last before the next one starts.
InTurn(e) == \A f \in EngineIds : f < e => Built(f)

ctorFrame ==
    <<mode, request, content_fetcher, pc, idx, execVars, sysVars,
      fusion_k, table, graph, cursor, stream, unitVars>>

\* self.db_manager = get_db_manager(self.config.database_uri)
EngineGetsManager(e) ==
    /\ mode = "construct" /\ engines[e].stage = "new"
    /\ db_manager' = GetDbManager(db_manager, Some(engines[e].config_uri))
    /\ engines' = [engines EXCEPT ![e].db_manager = db_manager',
                                  ![e].stage = "manager"]
    /\ UNCHANGED <<databases, found, ctorFrame>>

\* self.dense_retriever = DenseRetriever()
EngineMakesDense(e) ==
    /\ mode = "construct" /\ engines[e].stage = "manager"
    /\ db_manager' = GetDbManager(db_manager, None)
    /\ engines' = [engines EXCEPT ![e].dense_retriever = NewRetriever(db_manager),
                                  ![e].stage = "dense"]
    /\ UNCHANGED <<databases, found, ctorFrame>>

\* self.sparse_retriever = SparseRetriever(), and the rest of the constructor,
\* which does not touch the database.
EngineMakesSparse(e) ==
    /\ mode = "construct" /\ engines[e].stage = "dense"
    /\ db_manager' = GetDbManager(db_manager, None)
    /\ engines' = [engines EXCEPT ![e].sparse_retriever = NewRetriever(db_manager),
                                  ![e].stage = "built"]
    /\ UNCHANGED <<databases, found, ctorFrame>>

\* A document is added to the "documents" table of one database.
AddDocument(uri, doc) ==
    /\ mode = "construct"
    /\ doc \notin databases[uri]
    /\ databases' = [databases EXCEPT ![uri] = @ \cup {doc}]
    /\ UNCHANGED <<db_manager, engines, found, ctorFrame>>

\* engine.execute with one strategy over the table its retriever searches.
EngineSearch(e, strategy) ==
    /\ mode = "construct" /\ Built(e)
    /\ LET retriever == IF strategy = "lance_dense" THEN engines[e].dense_retriever
                        ELSE engines[e].sparse_retriever
       IN found' = [found EXCEPT ![e] =
                       Some(databases[SearchTable(retriever, db_manager).uri])]
    /\ UNCHANGED <<db_manager, engines, databases, ctorFrame>>

SequentialNext ==
    \/ \E e \in EngineIds : InTurn(e) /\ EngineGetsManager(e)
    \/ \E e \in EngineIds : InTurn(e) /\ EngineMakesDense(e)
    \/ \E e \in EngineIds : InTurn(e) /\ EngineMakesSparse(e)
    \/ \E uri \in DatabaseUris, doc \in DocPool : AddDocument(uri, doc)
    \/ \E e \in EngineIds, strategy \in {"lance_dense", "lance_fts"} :
          EngineSearch(e, strategy)

SequentialSpec == ConstructInit /\ [][SequentialNext]_vars

\* Engines constructed by threads that run together: nothing in db.py or in
\* the constructors orders the statements of one constructor against those of
\* another.
ConcurrentNext ==
    \/ \E e \in EngineIds : EngineGetsManager(e)
    \/ \E e \in EngineIds : EngineMakesDense(e)
    \/ \E e \in EngineIds : EngineMakesSparse(e)

ConcurrentSpec == ConstructInit /\ [][ConcurrentNext]_vars

\* ------------------------------------------------- FusionEngine.fuse alone
FusionDocIds == {"1", "2", "3", "4"}

\* A hit of an input list: its score is the retriever's, falling with the rank.
FusionHit(id, r) == [HitText EXCEPT !.doc_id = id, !.score = ScoreUnit \div (r + 1)]

FusionList(ids) == [r \in 1..Len(ids) |-> FusionHit(ids[r], r)]

FusionLists == {FusionList(ids) : ids \in SeqsUpTo(FusionDocIds, MaxFuseLen)}

\* No list, one list or two lists.
FusionInputs ==
    {<<>>} \cup {<<a>> : a \in FusionLists} \cup {<<a, b>> : a \in FusionLists, b \in FusionLists}

\* FusionEngine(k): the k of the test and the default.
FusionKs == {1, RrfK}

FusionInit ==
    /\ mode = "fuse"
    /\ fusion_k \in FusionKs
    /\ threshold = Threshold
    /\ returned = <<>>
    /\ all_hits \in FusionInputs
    /\ pc = "created"
    /\ request \in {r \in StreamRequest : r.filters = NoFilters}
    /\ content_fetcher = "none"
    /\ idx = 1
    /\ inflight = {}
    /\ peak_inflight = 0
    /\ contributed = <<Pending>>
    /\ fused_hits = <<>>
    /\ reranked_hits = <<>>
    /\ distill_calls = <<>>
    /\ error_source = "none"
    /\ response = NoResponse
    /\ count = 0
    /\ delivered = 0
    /\ produced = 0
    /\ dense_pending = <<>>
    /\ exit_kind = "none"
    /\ audit = <<>>
    /\ backend_errors = {}
    /\ invoked = {}
    /\ outcome = "none"
    /\ backend_calls = <<>>
    /\ table = <<>>
    /\ graph = EmptyGraph
    /\ cursor = 0
    /\ stream = <<>>
    /\ db_manager = NoManager
    /\ engines = <<>>
    /\ databases = <<>>
    /\ found = <<>>

\* new_hit = hit.model_copy(): the score is set on the copy, the caller's
\* lists and hits are as they were.
InputsAfterFuse(k, results) == results

\* results = fusion.fuse(lists)
FuseCall ==
    /\ mode = "fuse" /\ pc = "created"
    /\ fused_hits' = FuseK(fusion_k, all_hits)
    /\ all_hits' = InputsAfterFuse(fusion_k, all_hits)
    /\ pc' = "fused"
    /\ UNCHANGED <<mode, compVars, request, content_fetcher, idx, inflight, peak_inflight,
                   contributed, reranked_hits, distill_calls, error_source, response>>
    /\ UNCHANGED sysVars

FusionNext == FuseCall

FusionSpec == FusionInit /\ [][FusionNext]_vars

\* C11: the hits execute returns come from the 50-hit re-rank window: with the
\* re-ranker off they are the first top_k hits of the window, so a response
\* never holds more than 50 hits.
C11_WindowBoundsResponse ==
    ResponseReturned =>
        /\ Len(response.hits) <= RerankWindow
        /\ ~request.rerank_enabled =>
              DocIds(response.hits) =
                  DocIds(Take(RerankCandidates(fused_hits), request.top_k))

\* C12: every hit execute returns for a request with filters satisfies the
\* filter predicate on its metadata, whichever strategy produced it.
C12_FilterSoundness ==
    (ResponseReturned /\ request.filters # NoFilters) =>
        \A i \in 1..Len(response.hits) :
            MatchesFilters(response.hits[i].metadata, request.filters)

\* The doc_id lists a response of the bounded runs can carry.
IdLists == SeqsUpTo({"d1", "d2"}, MaxStrategies * MaxHits)

\* str(doc_ids) of each of them.
ReprOfIds == [ids \in IdLists |-> ReprList(ids)]

\* C13: the provenance hash is the digest of the query followed by the final
\* ordered doc_id list and of nothing else (scores, strategies and time do not
\* enter it), and two different final id orders give different hashed inputs.
C13_ProvenanceOfQueryAndOrder ==
    ResponseReturned =>
        LET final_ids == DocIds(response.hits)
            hashed == request.query \o ReprList(final_ids)
        IN /\ response.provenance_hash = Sha256(hashed)
           /\ \A ids \in IdLists :
                 ids # final_ids => request.query \o ReprOfIds[ids] # hashed

C13_Witness ==
    /\ ResponseReturned
    /\ request.fusion_enabled
    /\ Len(response.hits) >= 2
    /\ response.hits[1].score # HitText.score

\* The Scout ran over a hit for which it called a fetcher that raises.
FetcherRaised ==
    /\ mode = "execute" /\ pc \in {"done", "raised"}
    /\ request.distill_enabled
    /\ content_fetcher = "exploding"
    /\ \E i \in 1..Len(reranked_hits) : FetcherCalled(content_fetcher, reranked_hits[i])

\* C14: when the content fetcher raises for a hit, the error leaves distill and
\* execute: no list of distilled hits and no response is returned.
C14_FetcherErrorPropagates ==
    FetcherRaised =>
        /\ pc = "raised"
        /\ error_source = "scout"
        /\ response = NoResponse

C14_Witness ==
    /\ FetcherRaised
    /\ Len(reranked_hits) >= 2
    /\ error_source = "scout"

Exhausted == mode = "retrieve_systematic" /\ pc = "exhausted"

\* The page requests for a table of n rows: (limit, offset) pages of BatchSize
\* rows, up to and including the first page that is not full.
PageRequests(n) ==
    [i \in 1..((n \div BatchSize) + 1) |->
        [op |-> "fts", limit |-> BatchSize, offset |-> (i - 1) * BatchSize]]

\* C15: retrieve_systematic asks the backend page by page with (limit =
\* BatchSize, offset) and stops after the first page that is not full:
\* floor(N / BatchSize) + 1 requests for N matching rows.
C15_PagedRequests ==
    Exhausted => backend_calls = PageRequests(Len(table))

\* The rows of the backend whose metadata passes the request's filters.
MatchingRows(req, rows) ==
    IF req.filters = NoFilters THEN rows
    ELSE SelectSeq(rows, LAMBDA item : Yields(req, item))

\* C16: for an fts strategy whose backend holds N matching rows, the stream
\* yields exactly the rows whose metadata passes the request's filters (all N
\* without filters, for every N), in the backend's order, and the COMPLETE
\* audit's total_found is the number yielded.
C16_StreamIsExhaustive ==
    Exhausted =>
        LET expected == MatchingRows(request, table)
        IN /\ Len(stream) = Len(expected)
           /\ \A i \in 1..Len(stream) : stream[i].doc_id = expected[i].doc_id
           /\ audit[Len(audit)].data.total_found = Len(stream)

\* The consumer has closed the stream.
Closed == mode = "systematic" /\ (exit_kind = "closed" \/ outcome = "closed")

\* The audit log is as it was, or it has one more call, a COMPLETE.
OnlyCompleteLogged ==
    \/ audit' = audit
    \/ /\ Len(audit') = Len(audit) + 1
       /\ SubSeq(audit', 1, Len(audit)) = audit
       /\ audit'[Len(audit')].event = "SYSTEMATIC_SEARCH_COMPLETE"

\* C17: once the consumer has closed the execute_systematic stream, no step
\* issues a backend request, starts a strategy or hands over a hit; the only
\* event that follows is the SYSTEMATIC_SEARCH_COMPLETE audit.
C17_CloseStopsWork ==
    [][Closed =>
          /\ backend_calls' = backend_calls
          /\ invoked' = invoked
          /\ delivered' = delivered
          /\ OnlyCompleteLogged]_vars

\* A stream closed during its first strategy, a second one still to come, and
\* the COMPLETE audit logged after the close.
C17_Witness ==
    /\ Finished /\ exit_kind = "closed"
    /\ backend_calls # <<>>
    /\ invoked = {1} /\ Len(request.strategies) = 2
    /\ IsComplete(Len(audit))

\* C18: engines constructed one after the other stay isolated: both retrievers
\* of a constructed engine are bound to the table of the database the engine was
\* configured with, whatever was constructed since, and a search on an engine
\* returns only documents of that database.
C18_EnginesIsolated ==
    \A e \in DOMAIN engines :
        Built(e) =>
            /\ engines[e].dense_retriever.table.uri = engines[e].config_uri
            /\ engines[e].sparse_retriever.table.uri = engines[e].config_uri
            /\ found[e] # None => found[e][1] \subseteq databases[engines[e].config_uri]

\* Two engines on different databases, each database holding a document of
\* its own, and the engine constructed first has searched and found only its own.
C18_Witness ==
    /\ mode = "construct" /\ Built(1) /\ Built(2)
    /\ engines[1].config_uri = "db_a" /\ engines[2].config_uri = "db_b"
    /\ databases["db_a"] = {"doc_a"} /\ databases["db_b"] = {"doc_b"}
    /\ db_manager = LanceDBManager("db_b")
    /\ found[1] = Some({"doc_a"})

\* The places <<list, 0-based rank>> at which a document occurs in the lists.
Occurrences(results, id) ==
    {<<l, r>> \in (1..Len(results)) \X (0..MaxFuseLen) :
        r < Len(results[l]) /\ results[l][r + 1].doc_id = id}

\* The sum of 1 / (k + r + 1) over a set of places <<list, r>>.
RECURSIVE SumOfTerms(_, _)
SumOfTerms(k, places) ==
    IF places = {} THEN 0
    ELSE LET place == CHOOSE p \in places : TRUE
         IN ScoreUnit \div (k + place[2] + 1) + SumOfTerms(k, places \ {place})

RrfSum(k, results, id) == SumOfTerms(k, Occurrences(results, id))

InputDocIds(results) == {results[l][r].doc_id : <<l, r>> \in
                            {p \in (1..Len(results)) \X (1..MaxFuseLen) : p[2] <= Len(results[p[1]])}}

Fused == mode = "fuse" /\ pc = "fused"

\* C19: fuse leaves its input lists and their hits' scores as they were and
\* returns one hit per distinct doc_id of the input, scored with the sum of
\* 1 / (k + r + 1) over every list and 0-based rank r the document occurs at,
\* in descending order of score; [1,2,3] and [3,2,4] with k = 1 give 3, 2, 1, 4.
C19_RrfScoresAndOrder ==
    [][(mode = "fuse" /\ pc = "created") =>
          /\ all_hits' = all_hits
          /\ {fused_hits'[i].doc_id : i \in 1..Len(fused_hits')} = InputDocIds(all_hits)
          /\ ~HasDuplicateIds(fused_hits')
          /\ \A i \in 1..Len(fused_hits') :
                fused_hits'[i].score = RrfSum(fusion_k, all_hits, fused_hits'[i].doc_id)
          /\ \A i \in 1..Len(fused_hits'), j \in 1..Len(fused_hits') :
                i < j => fused_hits'[i].score >= fused_hits'[j].score
          /\ (fusion_k = 1 /\ all_hits = <<FusionList(<<"1", "2", "3">>),
                                             FusionList(<<"3", "2", "4">>)>>)
                => DocIds(fused_hits') = <<"3", "2", "1", "4">>]_vars

\* The lists of the example, fused with k = 1.
C19_Witness ==
    /\ Fused /\ fusion_k = 1
    /\ all_hits = <<FusionList(<<"1", "2", "3">>), FusionList(<<"3", "2", "4">>)>>
    /\ DocIds(fused_hits) = <<"3", "2", "1", "4">>

\* The position of a document's first occurrence, lists in input order and
\* hits in rank order.
FirstOccurrence(results, id) ==
    LET flat == DocIds(Flatten(results))
    IN CHOOSE n \in 1..Len(flat) :
           flat[n] = id /\ \A m \in 1..(n - 1) : flat[m] # id

\* C20: in the output of fuse, two documents with equal accumulated score are
\* in the order of their first occurrence across the input lists.
C20_TiesKeepFirstAppearance ==
    Fused =>
        \A i \in 1..Len(fused_hits), j \in 1..Len(fused_hits) :
            (i < j /\ fused_hits[i].score = fused_hits[j].score) =>
                FirstOccurrence(all_hits, fused_hits[i].doc_id)
                    < FirstOccurrence(all_hits, fused_hits[j].doc_id)

\* Documents 1 and 2 swap ranks between the two lists and tie, as do the two
\* list heads 3 and 4, which score less although they are seen first.
C20_Witness ==
    /\ Fused
    /\ all_hits = <<FusionList(<<"3", "1", "2">>), FusionList(<<"4", "2", "1">>)>>
    /\ DocIds(fused_hits) = <<"1", "2", "3", "4">>
    /\ fused_hits[1].score = fused_hits[2].score
    /\ fused_hits[3].score = fused_hits[4].score

\* The hits of the strategies that returned, in the order the request lists
\* the strategies.
ListedHits == Flatten(Contributions(contributed))

\* The positions of ListedHits whose doc_id has not occurred before.
FirstPositions ==
    {i \in 1..Len(ListedHits) :
        \A j \in 1..(i - 1) : ListedHits[j].doc_id # ListedHits[i].doc_id}

\* C21: with fusion off, the candidates of execute are the non-empty lists of
\* the strategies concatenated in request order, each doc_id kept at its first
\* occurrence only, the hit as it was returned (its score included).
C21_ConcatenateAndDedup ==
    (mode = "execute" /\ pc \notin {"retrieve", "fusion"} /\ ~request.fusion_enabled) =>
        /\ Len(fused_hits) = Cardinality(FirstPositions)
        /\ \A i \in FirstPositions :
              fused_hits[Cardinality({j \in FirstPositions : j <= i})] = ListedHits[i]

\* Two strategies return the same document with different scores, after a
\* second document: the candidate keeps the first strategy's hit.
C21_Witness ==
    /\ mode = "execute" /\ pc = "done" /\ ~request.fusion_enabled
    /\ request.strategies = <<"lance_fts", "lance_dense">>
    /\ DocIds(ListedHits) = <<"d1", "d1">>
    /\ ListedHits[1].score # ListedHits[2].score
    /\ fused_hits = <<ListedHits[1]>>

\* C22: for a string query SparseRetriever.retrieve submits the PubMed
\* translation of the query to the backend: each term[Tag] as field:term, the
\* rest of the query as it is.
C22_SubmitsTranslatedQuery ==
    (mode = "sparse_retrieve" /\ pc = "returned") =>
        backend_calls[1].query = parse_pubmed_query(request.query)

\* Two nodes are one hop apart when an edge of the graph joins them.
Adjacent(g, a, b) ==
    \E i \in 1..Len(g.edges) : g.edges[i].e \in {Edge(a, b), Edge(b, a)}

\* The papers one hop from a start node that are one hop from an AdverseEvent.
BridgingPapers(g) ==
    {p \in DOMAIN GraphNodes :
        /\ GraphNodes[p].label = "Paper"
        /\ \E i \in 1..Len(g.start) : Adjacent(g, g.start[i], p)
        /\ \E a \in DOMAIN GraphNodes :
              GraphNodes[a].label = "AdverseEvent" /\ Adjacent(g, p, a)}

GraphReturned ==
    /\ mode = "execute"
    /\ request.strategies = <<"graph_neighbor">>
    /\ contributed[1].status = "returned"

\* C23: GraphRetriever.retrieve returns bridging papers only, each once, and as
\* many of them as top_k allows: all of them when they are at most top_k, else
\* top_k of them.
C23_BridgingPapersOnly ==
    GraphReturned =>
        LET ids == DocIds(contributed[1].hits)
        IN /\ \A i, j \in 1..Len(ids) : ids[i] = ids[j] => i = j
           /\ \A i \in 1..Len(ids) : ids[i] \in BridgingPapers(graph)
           /\ Len(ids) = Min(request.top_k, Cardinality(BridgingPapers(graph)))

\* Study A is reached from both start nodes and has an AdverseEvent; Study B is
\* joined to an AdverseEvent only through Study A.
C23_Witness ==
    /\ GraphReturned
    /\ graph.start = <<"q1", "q2">>
    /\ \A e \in {Edge("q1", "pA"), Edge("q2", "pA"), Edge("q1", "pB"),
                  Edge("pB", "pA"), Edge("pA", "ae")} :
          \E i \in 1..Len(graph.edges) : graph.edges[i].e = e
    /\ request.top_k = MaxTopK
    /\ DocIds(contributed[1].hits) = <<"pA">>

MatchReturned == mode = "match" /\ pc = "returned"

\* The metadata matches_filters was called with.
MatchedMetadata == JsonLoads(table[1].metadata)

\* What the sub-predicates of the pool say of a metadata mapping, read off
\* the mapping itself.
SubHolds(md, sub) ==
    LET val5 == "val" \in DOMAIN md /\ md["val"] = VInt(5)
    IN CASE sub = FilterVal5 -> val5
         [] sub = FilterNot5 -> ~val5
         [] sub = FilterGt10 ->
                "val" \in DOMAIN md /\ md["val"].t = "int" /\ md["val"].v > 10
         [] sub = FilterNested -> TRUE

\* C24: a node matches exactly when every entry matches: an $or with a list
\* holding a matching sub-predicate, an $and with a list of matching
\* sub-predicates, a $not with a sub-predicate that does not match, a field
\* entry that matches; an $or or $and whose operand is not a list fails the
\* node whatever the other entries say.
C24_NodeIsConjunction ==
    MatchReturned =>
        LET md == MatchedMetadata
            node == request.filters
            EntryHolds(e) ==
                CASE e.key = "$or" ->
                        /\ e.operand.t = "list"
                        /\ \E j \in 1..Len(e.operand.v) : SubHolds(md, e.operand.v[j])
                  [] e.key = "$and" ->
                        /\ e.operand.t = "list"
                        /\ \A j \in 1..Len(e.operand.v) : SubHolds(md, e.operand.v[j])
                  [] e.key = "$not" -> ~SubHolds(md, e.operand.v)
                  [] e.key = "field" -> SubHolds(md, <<e>>)
        IN /\ returned[1] = (\A i \in 1..Len(node) : EntryHolds(node[i]))
           /\ (\E i \in 1..Len(node) :
                   node[i].key \in {"$or", "$and"} /\ node[i].operand.t # "list")
                 => ~returned[1]

\* {"$or": "not-a-list", "val": 5} against {"val": 5} does not match.
C24_Witness ==
    /\ MatchReturned
    /\ request.filters = <<LogicalEntry("$or", VStr("not-a-list"))>> \o FilterVal5
    /\ MatchedMetadata = [val |-> VInt(5)]
    /\ returned = <<FALSE>>

\* C30: a field predicate whose mapping has no recognised operator key matches
\* every metadata: {"nested": {"key": "value"}} is an operator table with the
\* unknown operator "key", not an equality on the nested mapping.
C30_UnknownOperatorTableMatchesAll ==
    (MatchReturned /\ request.filters = FilterNested) => returned = <<TRUE>>

\* The metadata's nested mapping is {"key": "other"} and the filter matches.
C30_Witness ==
    /\ MatchReturned
    /\ request.filters = FilterNested
    /\ "nested" \in DOMAIN MatchedMetadata
    /\ MatchedMetadata["nested"] = VDict([key |-> VStr("other")])
    /\ returned = <<TRUE>>

Distilled == mode = "distill" /\ pc = "returned"

\* The whitespace-separated words of a string: its maximal runs without a
\* space.
Words(str) ==
    {SubSeq(str, a, b) : <<a, b>> \in
        {ab \in (1..Len(str)) \X (1..Len(str)) :
            /\ ab[1] <= ab[2]
            /\ \A m \in ab[1]..ab[2] : str[m] # " "
            /\ (ab[1] = 1 \/ str[ab[1] - 1] = " ")
            /\ (ab[2] = Len(str) \/ str[ab[2] + 1] = " ")}}

\* The segment holds a term of the query, letter case aside.
HasTerm(seg, query) ==
    \E w \in Words(LowerStr(query)) : IsSubstring(w, LowerStr(seg))

\* The segments of the text that hold a term, joined by single spaces.
MatchingSegments(text, query) ==
    JoinSpace(SelectSeq(Segment(text), LAMBDA seg : HasTerm(seg, query)))

\* One output hit per input hit, in the input's order.
HitForHit ==
    /\ Len(returned) = Len(reranked_hits)
    /\ \A i \in 1..Len(returned) :
          /\ returned[i].doc_id = reranked_hits[i].doc_id
          /\ returned[i].original_text = reranked_hits[i].original_text

\* Every hit with text has the join of its matching segments as distilled_text.
KeepsMatchingSegments ==
    \A i \in 1..Len(returned) :
        LET text == reranked_hits[i].original_text[1]
        IN text # <<>> =>
              /\ returned[i].distilled_text = MatchingSegments(text, request.query)
              /\ Words(request.query) = {} => returned[i].distilled_text = <<>>

\* C25 as stated: whatever the Scout's configuration, distilled_text is the
\* single-space join of the segments that hold a query term, and there is one
\* output hit per input hit in the same order.
C25_KeepsMatchingSegments == Distilled => (HitForHit /\ KeepsMatchingSegments)

\* C25 amended: with a threshold below 1.0 (the default is 0.4) distilled_text
\* is the single-space join of the segments that hold a query term; with the
\* threshold at 1.0 no score exceeds it and distilled_text is empty for every
\* hit. In both cases there is one output hit per input hit in the same order.
C25_KeepsMatchingBelowOne ==
    Distilled =>
        /\ HitForHit
        /\ threshold < ScoreUnit => KeepsMatchingSegments
        /\ threshold = ScoreUnit =>
              \A i \in 1..Len(returned) : returned[i].distilled_text = <<>>

\* "A. b" asked for "B" under the default threshold: the second sentence alone
\* is kept; the second hit "Ab. c" keeps its first sentence.
C25_Witness ==
    /\ Distilled
    /\ threshold = Threshold
    /\ request.query = <<"B">>
    /\ Len(returned) = 2
    /\ reranked_hits[1].original_text = Some(<<"A", ".", " ", "b">>)
    /\ returned[1].distilled_text = <<"b">>
    /\ returned[2].distilled_text = <<"A", "b", ".">>

\* The engine has logged the START audit of a stream over the sparse
\* retriever's own code.
SparseStarted == mode = "retrieve_systematic" /\ audit # <<>>

FacadeReturned == mode = "systematic" /\ pc = "returned"

\* START and COMPLETE are both logged, and COMPLETE counts every hit of the
\* list the iterator runs over.
AuditClosed ==
    /\ Len(audit) = 2
    /\ IsStart(1) /\ audit[1].ok
    /\ IsComplete(2) /\ audit[2].ok
    /\ audit[2].data.total_found = returned[1]

C28_NoCompleteWithoutStart ==
    mode = "systematic" =>
        /\ StartFailed =>
              /\ Len(audit) = 1
              /\ invoked = {}
              /\ backend_calls = <<>>
              /\ delivered = 0
        /\ \A i \in CompleteCalls : i > 1 /\ StartSucceeded

\* The sink raised on START and the stream has ended with that error.
C28_Witness ==
    /\ Finished /\ StartFailed
    /\ Len(request.strategies) = MaxStrategies
    /\ CompleteCalls = {}
    /\ invoked = {}

\* C29: however the steps of the constructors interleave, the dense and the
\* sparse retriever of a constructed engine are bound to the table of the
\* engine's own database_uri.
C29_ConcurrentEnginesIsolated ==
    mode = "construct" =>
        \A e \in EngineIds :
            Built(e) =>
                {engines[e].dense_retriever.table.uri,
                 engines[e].sparse_retriever.table.uri} = {engines[e].config_uri}

====
